---- MODULE Spec2Model ----
(***************************************************************************)
(* Daniel_AI: the agent orchestration loop (server/ai/agent.ts), the       *)
(* realtime handler that drives it (server/routes.ts), the streaming       *)
(* decoders of the provider adapters (server/ai/providers.ts) and the      *)
(* directory confinement of the tool executor (server/ai/tools.ts).        *)
(*                                                                         *)
(* One chat of one project, one realtime connection.  Every inbound        *)
(* "message" starts a handler invocation r (a run); the invocations are    *)
(* asynchronous and take their steps at the awaits of the code.            *)
(***************************************************************************)
EXTENDS Naturals, Integers, Sequences, FiniteSets, TLC

\* ------------------------------------------------------------------ bounds
\* inbound user messages the client sends on the connection
MaxRuns == 2
\* provider responses the vendor delivers in the free scenario
MaxCalls == 2
\* content and tool-call chunks in one provider response
MaxChunks == 2
\* largest configured AgentConfig.maxIterations
MaxCap == 1
\* data lines in one streamed provider response
MaxLines == 4
\* segments of a path argument of a filesystem tool
MaxSegs == 2
\* tool calls one executor serves
MaxOps == 2
\* tool invocations in the assistant turn of a replayed history
MaxTcs == 2
\* background processes one executor spawns
MaxPids == 2
\* calls of the tools that do not work on paths, served by one executor
MaxToolOps == 3

\* AgentConfig.maxIterations left undefined (createAgent never sets it)
Unset == 0
\* `this.config.maxIterations || 10`
DefaultMaxIterations == 10

RunIds == 1..MaxRuns
CapConfigs == {Unset} \cup (1..MaxCap)

VARIABLES
    joined,         \* currentProjectId/currentChatId of the connection are set
    nruns,          \* inbound "message" frames received so far
    storage,        \* the chat's rows of the messages table, in createdAt order
    maxIterations,  \* AgentConfig.maxIterations the agents are constructed with
    stub,           \* the provider scenario: "free" or "loop"
    calls,          \* provider responses delivered so far
    pc,             \* pc[r]: the await at which handler invocation r stands
    history,        \* history[r]: Agent.conversationHistory
    iterations,     \* iterations[r]: the loop counter of run()
    fullContent,    \* fullContent[r] of the current iteration
    toolCalls,      \* toolCalls[r] collected in the current iteration
    toolResults,    \* toolResults[r] of the current iteration
    log,            \* log[r]: what invocation r did, in order (history variable)
    open,           \* the socket of the connection is open
    closedAt,       \* closedAt[r]: the length of log[r] when the socket closed
    \* one streamComplete call of a provider adapter
    dvendor,        \* "openai", "anthropic" or "google" ("none": no call)
    dstream,        \* the response body the vendor sends, as text atoms
    dpos,           \* atoms of the body the reader has returned so far
    dbuffer,        \* `buffer`: the unfinished last line
    dcalls,         \* OpenAI `toolCalls`: the Map, in insertion order
    dcur,           \* Anthropic `currentToolCall` (NoPart: null)
    dinput,         \* Anthropic `toolInputBuffer`
    dout,           \* the chunks the generator has yielded
    dpc,            \* "fetch", "reading", "done" (returned) or "threw"; of
                    \* complete: "resolved" or "rejected"
    dmethod,        \* the method that was called ("none": not yet)
    dresponse,      \* the response fetch resolved with
    derror,         \* the error text of the error chunk or of the exception
                    \* that the check of the response produced
    dsplit,         \* a read has ended inside a payload (history variable)
    \* one ToolExecutor and the filesystem it works on
    fdirs,          \* the directories that exist
    ffiles,         \* the files that exist
    flink,          \* where the symbolic link to /ab lies
    fresult,        \* the result text the last execute() returned
    fflag,          \* the isError flag the last execute() returned
    fraised,        \* an exception was raised inside the last execute()
    fio,            \* the paths the last execute() handed to fs functions
    foutside,       \* an argument of the last execute() resolved outside
    fvia,           \* an argument of the last execute() led outside through the link
    flast,          \* the tool of the last execute() and what it was asked to do
    fops,           \* execute() calls so far
    \* one formatMessages call of a provider adapter
    evendor,        \* the adapter that encodes
    eturns,         \* the history: an assistant turn and its tool turn
    erequest,       \* the vendor messages formatMessages returned (<<>>: not yet)
    esystem,        \* the top-level system field of the request body
    emodel,         \* this.model of the adapter
    eargs,          \* tools, maxTokens, temperature of the request; the method called
    ebody,          \* the other fields of the body an OpenAI request is posted with
    \* one ToolExecutor, the processes of the host and the project's .env file
    backgroundProcesses, \* ToolExecutor.backgroundProcesses: pid -> command
    alive,          \* the pids of the processes that run on the host
    nextPid,        \* the pid the host gives to the next spawned process
    spawned,        \* the pids execute_shell spawned in the background
    targeted,       \* the spawned pids that were since the target of a kill or a restart
    envFile,        \* the lines of the project's .env file
    envVars,        \* ToolExecutor.envVars: key -> value
    envCalls,       \* the set_env_variable calls that persisted, in order
    tshell,         \* the last foreground execute_shell: its timeout, how the
                    \* command ended and what the call returned
    tlast,          \* the last execute(): what it was called with and what it did
    tflag,          \* the isError flag the last execute() returned
    tops,           \* execute() calls so far
    \* the agents of the sessions and the objects they hold
    heap,           \* the objects allocated so far; a reference is a position
    agents,         \* agents[s]: the references the Agent of session s and its
                    \* ToolExecutor hold (NoAgent: not yet created)
    actor,          \* the session that acted last
    sops            \* operations of the sessions so far

agentVars == <<joined, nruns, storage, maxIterations, stub, calls, pc, history,
               iterations, fullContent, toolCalls, toolResults, log, open, closedAt>>
decVars == <<dvendor, dstream, dpos, dbuffer, dcalls, dcur, dinput, dout, dpc,
             dmethod, dresponse, derror, dsplit>>
fsVars == <<fdirs, ffiles, flink, fresult, fflag, fraised, fio, foutside, fvia, flast,
            fops>>
encVars == <<evendor, eturns, erequest, esystem, emodel, eargs, ebody>>
toolVars == <<backgroundProcesses, alive, nextPid, spawned, targeted, envFile, envVars,
              envCalls, tshell, tlast, tflag, tops>>
sessVars == <<heap, agents, actor, sops>>
nonAgentVars == <<decVars, fsVars, encVars, toolVars, sessVars>>
nonDecVars == <<agentVars, fsVars, encVars, toolVars, sessVars>>
nonFsVars == <<agentVars, decVars, encVars, toolVars, sessVars>>
nonEncVars == <<agentVars, decVars, fsVars, toolVars, sessVars>>
nonToolVars == <<agentVars, decVars, fsVars, encVars, sessVars>>
nonSessVars == <<agentVars, decVars, fsVars, encVars, toolVars>>
vars == <<agentVars, decVars, fsVars, encVars, toolVars, sessVars>>

\* ------------------------------------------------------------- data model
\* AIMessage (providers.ts): content is a sequence of text tokens
Msg(role, content, tcs, trs) ==
    [role |-> role, content |-> content, toolCalls |-> tcs, toolResults |-> trs]

\* a row of the messages table; run is the invocation that inserted it
Row(role, content, tcs, trs, r) ==
    [role |-> role, content |-> content, toolCalls |-> tcs, toolResults |-> trs,
     run |-> r]

\* ToolCall as the adapters emit it (arguments are not interpreted by the loop)
ToolCall(id, name) == [id |-> id, name |-> name]

\* createSystemPrompt(projectName, projectDir)
createSystemPrompt == <<"SYSTEM">>

\* the content of the r-th inbound message
UserMessage(r) == <<CASE r = 1 -> "u1" [] r = 2 -> "u2" [] r = 3 -> "u3" [] OTHER -> "u4">>

\* log entries: an event yielded by run() or sent by the handler (x its text
\* or identifier, i the position of the invocation it is about), a provider
\* call issued in iteration i, the response the provider gave to it (t how it
\* ends, i its tool invocations), a createMessage that resumed (x its outcome,
\* i the position of the row in the table, 0 when no row was inserted) and a
\* tool handed to the executor (i its position in toolCalls)
Ev(type, x, i) == [k |-> "event", t |-> type, x |-> x, i |-> i]
CallEntry(i) == [k |-> "call", t |-> "streamComplete", x |-> "", i |-> i]
ResponseEntry(kind, n) == [k |-> "response", t |-> kind, x |-> "", i |-> n]
PersistEntry(role, outcome, at) == [k |-> "persist", t |-> role, x |-> outcome, i |-> at]
ExecEntry(tc, i) == [k |-> "exec", t |-> tc.name, x |-> tc.id, i |-> i]

\* a tool-call delta (OpenAI) or a part (Google) of a streamed event
Part(idx, id, name, frag, text) ==
    [idx |-> idx, id |-> id, name |-> name, frag |-> frag, text |-> text]
NoPart == Part(0, "", "", "", "")

\* ------------------------------------------------------- provider responses
\* AIStreamChunk (providers.ts)
NoToolCall == ToolCall("", "")
ContentChunk(text) == [type |-> "content", content |-> text, toolCall |-> NoToolCall]
ToolCallChunk(tc) == [type |-> "tool_call", content |-> <<>>, toolCall |-> tc]
ErrorChunk == [type |-> "error", content |-> <<>>, toolCall |-> NoToolCall]
DoneChunk == [type |-> "done", content |-> <<>>, toolCall |-> NoToolCall]

\* identifiers the vendors give to the invocations of one response
IdOf(n) == CASE n = 1 -> "id1" [] n = 2 -> "id2" [] n = 3 -> "id3" [] OTHER -> "id4"

\* The shape of a response body: "c" a content chunk, "n" a tool call with an
\* identifier not used before in the response, "d" a tool call that repeats the
\* identifier of the previous tool call (GoogleProvider names the identifier
\* after the function, so two calls of one function share it).
RECURSIVE ShapesUpTo(_)
ShapesUpTo(n) ==
    IF n = 0 THEN {<<>>}
    ELSE LET S == ShapesUpTo(n - 1) IN
         S \cup {Append(s, x) : s \in {t \in S : Len(t) = n - 1}, x \in {"c", "n", "d"}}

NumTools(shape) == Cardinality({i \in 1..Len(shape) : shape[i] \in {"n", "d"}})
NumFresh(shape) == Cardinality({i \in 1..Len(shape) : shape[i] = "n"})

WellFormed(shape) ==
    \A i \in 1..Len(shape) :
       shape[i] = "d" => \E j \in 1..(i - 1) : shape[j] = "n"

\* the text of the i-th chunk of a body
TextOf(i) == IF i = 1 THEN "a" ELSE "b"

\* the chunks of a body of the given shape
BodyChunks(shape) ==
    [i \in 1..Len(shape) |->
        IF shape[i] = "c" THEN ContentChunk(<<TextOf(i)>>)
        ELSE ToolCallChunk(ToolCall(IdOf(NumFresh(SubSeq(shape, 1, i))),
                                    "list_directory"))]

\* what one streamComplete call produces: the chunks it yields and whether the
\* generator then throws (a rejected read, a JSON.parse of the arguments)
Response(chunks, throws) == [chunks |-> chunks, throws |-> throws]

Responses ==
    {Response(<<ErrorChunk>>, FALSE)}
    \cup {Response(Append(BodyChunks(s), DoneChunk), FALSE) :
             s \in {t \in ShapesUpTo(MaxChunks) : WellFormed(t)}}
    \cup {Response(BodyChunks(s), TRUE) :
             s \in {t \in ShapesUpTo(MaxChunks) : WellFormed(t)}}

\* log entries for the chunks of a response, as the provider produced them
ChunkEntry(chunk) ==
    [k |-> "chunk", t |-> chunk.type,
     x |-> IF chunk.type = "content" THEN chunk.content[1]
           ELSE IF chunk.type = "tool_call" THEN chunk.toolCall.id ELSE "",
     i |-> 0]
ChunkEntries(chunks) == [n \in 1..Len(chunks) |-> ChunkEntry(chunks[n])]

\* how a response ends and how many tool invocations it carries
ResponseKind(resp) ==
    IF \E i \in 1..Len(resp.chunks) : resp.chunks[i].type = "error" THEN "error"
    ELSE IF resp.throws THEN "throws" ELSE "ok"
ResponseTools(resp) ==
    Cardinality({i \in 1..Len(resp.chunks) : resp.chunks[i].type = "tool_call"})

\* the stub that requests one tool call on every call
LoopResponse == Response(<<ToolCallChunk(ToolCall("id1", "list_directory")), DoneChunk>>, FALSE)

\* outcomes of storage.createMessage: the insert and the update of the chat
\* both succeed, the insert rejects, or the row is inserted and the update of
\* chats.updatedAt rejects
PersistOutcomes == {"ok", "insert_failed", "update_failed"}

\* --------------------------------------------------------------- the agent
\* Agent.run: `this.config.maxIterations || 10`
EffectiveCap == IF maxIterations = Unset THEN DefaultMaxIterations ELSE maxIterations

\* (mutant) the constructor pushes the system prompt after the history is loaded
LoadedHistoryPromptLast(rows) ==
    [i \in 1..Len(rows) |->
          Msg(rows[i].role, rows[i].content, rows[i].toolCalls, rows[i].toolResults)]
    \o <<Msg("system", createSystemPrompt, <<>>, <<>>)>>

\* (mutant) loadHistory leaves the tool outcomes of the rows behind
LoadedHistoryNoOutcomes(rows) ==
    <<Msg("system", createSystemPrompt, <<>>, <<>>)>>
    \o [i \in 1..Len(rows) |->
          Msg(rows[i].role, rows[i].content, rows[i].toolCalls, <<>>)]

\* Agent.loadHistory: the rows of the chat become AIMessages behind the
\* system prompt the constructor pushed
LoadedHistory(rows) ==
    <<Msg("system", createSystemPrompt, <<>>, <<>>)>>
    \o [i \in 1..Len(rows) |->
          Msg(rows[i].role, rows[i].content, rows[i].toolCalls, rows[i].toolResults)]

\* storage.createMessage: the row is in the table unless the insert rejected
Inserted(rows, row, outcome) ==
    IF outcome = "insert_failed" THEN rows ELSE Append(rows, row)

\* the position of the row createMessage inserted, 0 when it inserted none
InsertedAt(rows, outcome) ==
    IF outcome = "insert_failed" THEN 0 ELSE Len(rows) + 1

\* (mutant) a rejected createMessage is swallowed
PersistedAlways(outcome) == TRUE

\* `await storage.createMessage(...)` resumes normally; otherwise it throws
Persisted(outcome) == outcome = "ok"

\* the text stored as the content of a tool turn:
\* toolResults.map(r => `${r.toolCallId}: ${r.result}`).join("\n\n")
RECURSIVE ToolTurnContent(_)
ToolTurnContent(trs) ==
    IF trs = <<>> THEN <<>>
    ELSE <<Head(trs).toolCallId, Head(trs).result>> \o ToolTurnContent(Tail(trs))

\* (mutant) the outcome loses its error flag
ToolResultUnflagged(tc, isError) ==
    [toolCallId |-> tc.id,
     result |-> IF isError THEN "Error" ELSE "ok",
     isError |-> FALSE]

\* ToolExecutor.execute as the loop sees it: a result text and an error flag;
\* run() then overwrites toolCallId with the identifier of the invocation
ToolResult(tc, isError) ==
    [toolCallId |-> tc.id,
     result |-> IF isError THEN "Error" ELSE "ok",
     isError |-> isError]

\* (mutant) the assistant turn is built without the accumulated content
AssistantTurnNoContent(content, tcs) == Msg("assistant", <<>>, tcs, <<>>)

\* the assistant turn of an iteration: the accumulated content and the
\* collected invocations (`toolCalls.length > 0 ? toolCalls : undefined`)
AssistantTurn(content, tcs) == Msg("assistant", content, tcs, <<>>)

\* (mutant) `while (iterations <= maxIterations)`
LoopTopOffByOne(it, lg) ==
    IF it <= EffectiveCap
    THEN [pc |-> "stream", iterations |-> it + 1,
          log |-> lg \o <<Ev("thinking", "", it + 1), CallEntry(it + 1)>>]
    ELSE [pc |-> "done", iterations |-> it,
          log |-> Append(lg, Ev("error", "Maximum iterations reached", 0))]

\* (mutant) thinking is yielded before the loop, once for the whole run
LoopTopThinkingOnce(it, lg) ==
    IF it < EffectiveCap
    THEN [pc |-> "stream", iterations |-> it + 1,
          log |-> lg \o (IF it = 0 THEN <<Ev("thinking", "", it + 1)>> ELSE <<>>)
                     \o <<CallEntry(it + 1)>>]
    ELSE [pc |-> "done", iterations |-> it,
          log |-> Append(lg, Ev("error", "Maximum iterations reached", 0))]

\* the top of `while (iterations < maxIterations)` and the statement after the
\* loop: the next iteration yields thinking and issues the provider call, the
\* exhausted loop yields the error event
LoopTop(it, lg) ==
    IF it < EffectiveCap
    THEN [pc |-> "stream", iterations |-> it + 1,
          log |-> lg \o <<Ev("thinking", "", it + 1), CallEntry(it + 1)>>]
    ELSE [pc |-> "done", iterations |-> it,
          log |-> Append(lg, Ev("error", "Maximum iterations reached", 0))]

\* (mutant) `fullContent = chunk.content + fullContent`
OnChunkPrepends(st, chunk) ==
    IF chunk.type = "content" /\ chunk.content # <<>>
    THEN [st EXCEPT !.content = chunk.content \o st.content,
                    !.log = Append(st.log, Ev("content", chunk.content[1], 0))]
    ELSE IF chunk.type = "tool_call" /\ chunk.toolCall # NoToolCall
    THEN [st EXCEPT !.toolCalls = Append(st.toolCalls, chunk.toolCall),
                    !.log = Append(st.log, Ev("tool_call", chunk.toolCall.id,
                                              Len(st.toolCalls) + 1))]
    ELSE IF chunk.type = "error"
    THEN [st EXCEPT !.log = Append(st.log, Ev("error", "provider error", 0)),
                    !.returned = TRUE]
    ELSE st

\* the body of `for await (const chunk of this.provider.streamComplete(...))`
\* for one chunk; st.returned is the `return` after an error chunk
OnChunk(st, chunk) ==
    IF chunk.type = "content" /\ chunk.content # <<>>
    THEN [st EXCEPT !.content = st.content \o chunk.content,
                    !.log = Append(st.log, Ev("content", chunk.content[1], 0))]
    ELSE IF chunk.type = "tool_call" /\ chunk.toolCall # NoToolCall
    THEN [st EXCEPT !.toolCalls = Append(st.toolCalls, chunk.toolCall),
                    !.log = Append(st.log, Ev("tool_call", chunk.toolCall.id,
                                              Len(st.toolCalls) + 1))]
    ELSE IF chunk.type = "error"
    THEN [st EXCEPT !.log = Append(st.log, Ev("error", "provider error", 0)),
                    !.returned = TRUE]
    ELSE st

\* (mutant) the chunks are taken from the end of the stream
RECURSIVE ConsumeReversed(_, _)
ConsumeReversed(chunks, st) ==
    IF chunks = <<>> \/ st.returned THEN st
    ELSE ConsumeReversed(SubSeq(chunks, 1, Len(chunks) - 1),
                         OnChunk(st, chunks[Len(chunks)]))

RECURSIVE Consume(_, _)
Consume(chunks, st) ==
    IF chunks = <<>> \/ st.returned THEN st
    ELSE Consume(Tail(chunks), OnChunk(st, Head(chunks)))

\* (mutant) the catch of run() returns without yielding
RunCatchSilent(lg, message) == lg

\* `catch (error) { yield { type: "error", error: error.message }; return; }`
\* of run(): the generator ends after the one error event
RunCatch(lg, message) == Append(lg, Ev("error", message, 0))

\* (mutant) the handler drops what createAgent or run() throw
HandlerCatchSilent(lg, message) == lg

\* `catch (error) { ws.send({ type: "error", error: error.message }) }` of the
\* handler, for what createAgent or run() throw
HandlerCatch(lg, message) == Append(lg, Ev("error", message, 0))

\* ------------------------------------------------------------------ actions
\* inbound {type: "join"}: the connection remembers the project and the chat
Join ==
    /\ open
    /\ ~joined
    /\ joined' = TRUE
    /\ UNCHANGED <<nonAgentVars, open, closedAt, nruns, storage, maxIterations, stub, calls, pc, history,
                   iterations, fullContent, toolCalls, toolResults, log>>

\* (mutant) the handler does not look at the project and the chat
NotJoinedNever(j) == FALSE
\* `!currentProjectId || !currentChatId`
NotJoined(j) == ~j

\* inbound {type: "message"}.  Not joined, the handler answers with an error.
\* Joined, it awaits createAgent: the project is missing or a read rejected
\* (found = FALSE) and the handler reports it; otherwise the agent is
\* constructed, the history is loaded, run() pushes the user message and calls
\* createMessage.
Receive(found) ==
    /\ open
    /\ nruns < (IF stub = "loop" THEN 1 ELSE MaxRuns)
    /\ LET r == nruns + 1 IN
       /\ nruns' = r
       /\ IF NotJoined(joined)
          THEN /\ pc' = [pc EXCEPT ![r] = "rejected"]
               /\ log' = [log EXCEPT ![r] = <<Ev("error", "Not joined to a chat", 0)>>]
               /\ history' = history
          ELSE IF ~found
          THEN /\ pc' = [pc EXCEPT ![r] = "done"]
               /\ log' = [log EXCEPT ![r] = HandlerCatch(log[r], "Project not found")]
               /\ history' = history
          ELSE /\ pc' = [pc EXCEPT ![r] = "persist_user"]
               /\ log' = log
               /\ history' = [history EXCEPT ![r] =
                     Append(LoadedHistory(storage), Msg("user", UserMessage(r), <<>>, <<>>))]
    /\ UNCHANGED <<nonAgentVars, open, closedAt, joined, storage, maxIterations, stub, calls,
                   iterations, fullContent, toolCalls, toolResults>>

\* createMessage of the user turn resumes.  It is outside the try of run(): a
\* rejection leaves run() and is caught by the handler.
PersistUser(r, outcome) ==
    /\ pc[r] = "persist_user"
    /\ storage' = Inserted(storage, Row("user", UserMessage(r), <<>>, <<>>, r), outcome)
    /\ LET lg == Append(log[r], PersistEntry("user", outcome, InsertedAt(storage, outcome))) IN
       IF Persisted(outcome)
       THEN LET nx == LoopTop(0, lg) IN
            /\ pc' = [pc EXCEPT ![r] = nx.pc]
            /\ iterations' = [iterations EXCEPT ![r] = nx.iterations]
            /\ log' = [log EXCEPT ![r] = nx.log]
       ELSE /\ pc' = [pc EXCEPT ![r] = "done"]
            /\ iterations' = iterations
            /\ log' = [log EXCEPT ![r] = HandlerCatch(lg, "persist failed")]
    /\ fullContent' = [fullContent EXCEPT ![r] = <<>>]
    /\ toolCalls' = [toolCalls EXCEPT ![r] = <<>>]
    /\ toolResults' = [toolResults EXCEPT ![r] = <<>>]
    /\ UNCHANGED <<nonAgentVars, open, closedAt, joined, nruns, maxIterations, stub, calls, history>>

\* the provider stream of the current iteration is consumed to its end
Stream(r, resp) ==
    /\ pc[r] = "stream"
    /\ IF stub = "loop"
       THEN resp = LoopResponse /\ calls' = calls
       ELSE calls < MaxCalls /\ calls' = calls + 1
    /\ LET st == Consume(resp.chunks,
                         [content |-> <<>>, toolCalls |-> <<>>,
                          log |-> Append(log[r], ResponseEntry(ResponseKind(resp),
                                                               ResponseTools(resp)))
                                  \o ChunkEntries(resp.chunks),
                          returned |-> FALSE])
       IN
       /\ fullContent' = [fullContent EXCEPT ![r] = st.content]
       /\ toolCalls' = [toolCalls EXCEPT ![r] = st.toolCalls]
       /\ toolResults' = [toolResults EXCEPT ![r] = <<>>]
       /\ IF st.returned
          THEN /\ pc' = [pc EXCEPT ![r] = "done"]
               /\ log' = [log EXCEPT ![r] = st.log]
               /\ history' = history
          ELSE IF resp.throws
          THEN /\ pc' = [pc EXCEPT ![r] = "done"]
               /\ log' = [log EXCEPT ![r] = RunCatch(st.log, "stream failed")]
               /\ history' = history
          ELSE /\ pc' = [pc EXCEPT ![r] = "persist_assistant"]
               /\ log' = [log EXCEPT ![r] = st.log]
               /\ history' = [history EXCEPT ![r] =
                     Append(@, AssistantTurn(st.content, st.toolCalls))]
    /\ UNCHANGED <<nonAgentVars, open, closedAt, joined, nruns, storage, maxIterations, stub, iterations>>

\* createMessage of the assistant turn resumes: without tool calls the run is
\* done, with tool calls the first tool is handed to the executor
PersistAssistant(r, outcome) ==
    /\ pc[r] = "persist_assistant"
    /\ LET turn == AssistantTurn(fullContent[r], toolCalls[r]) IN
       storage' = Inserted(storage,
                     Row(turn.role, turn.content, turn.toolCalls, <<>>, r), outcome)
    /\ LET lg == Append(log[r], PersistEntry("assistant", outcome, InsertedAt(storage, outcome))) IN
       IF ~Persisted(outcome)
       THEN /\ pc' = [pc EXCEPT ![r] = "done"]
            /\ log' = [log EXCEPT ![r] = RunCatch(lg, "persist failed")]
       ELSE IF toolCalls[r] = <<>>
       THEN /\ pc' = [pc EXCEPT ![r] = "done"]
            /\ log' = [log EXCEPT ![r] = Append(lg, Ev("done", "", 0))]
       ELSE /\ pc' = [pc EXCEPT ![r] = "exec"]
            /\ log' = [log EXCEPT ![r] = lg]
    /\ UNCHANGED <<nonAgentVars, open, closedAt, joined, nruns, maxIterations, stub, calls, history,
                   iterations, fullContent, toolCalls, toolResults>>

\* (mutant) the invocations are taken from the end of the list
NextToolReversed(tcs, n) == Len(tcs) - n

\* `for (const toolCall of toolCalls)`: the invocation executed after `n`
\* results have been collected
NextTool(tcs, n) == n + 1

\* the body of `for (const toolCall of toolCalls)` for the invocations not
\* yet executed: execute, set toolCallId, push the result, yield tool_result;
\* errs[i] is whether the executor flags the result of the i-th invocation
\* (mutant) the loop over the invocations has no iteration
ExecuteNone(tcs, trs, lg, errs) == [toolResults |-> trs, log |-> lg]
RECURSIVE ExecuteAll(_, _, _, _)
ExecuteAll(tcs, trs, lg, errs) ==
    IF Len(trs) = Len(tcs) THEN [toolResults |-> trs, log |-> lg]
    ELSE LET i == NextTool(tcs, Len(trs))
             tc == tcs[i]
             tr == ToolResult(tc, errs[i])
         IN ExecuteAll(tcs, Append(trs, tr),
                       lg \o <<ExecEntry(tc, i), Ev("tool_result", tr.result, i)>>,
                       errs)

\* the tools of the iteration are executed one after the other, the tool turn
\* is pushed to the history and createMessage is called
ExecTools(r, errs) ==
    /\ pc[r] = "exec"
    /\ DOMAIN errs = 1..Len(toolCalls[r])
    /\ LET done == ExecuteAll(toolCalls[r], <<>>, log[r], errs) IN
       /\ toolResults' = [toolResults EXCEPT ![r] = done.toolResults]
       /\ log' = [log EXCEPT ![r] = done.log]
       /\ history' = [history EXCEPT ![r] =
             Append(@, Msg("tool", <<>>, <<>>, done.toolResults))]
       /\ pc' = [pc EXCEPT ![r] = "persist_tool"]
    /\ UNCHANGED <<nonAgentVars, open, closedAt, joined, nruns, storage, maxIterations, stub, calls,
                   iterations, fullContent, toolCalls>>

\* createMessage of the tool turn resumes and the loop goes to its top
PersistTool(r, outcome) ==
    /\ pc[r] = "persist_tool"
    /\ storage' = Inserted(storage,
                     Row("tool", ToolTurnContent(toolResults[r]), <<>>, toolResults[r], r),
                     outcome)
    /\ LET lg == Append(log[r], PersistEntry("tool", outcome, InsertedAt(storage, outcome))) IN
       IF Persisted(outcome)
       THEN LET nx == LoopTop(iterations[r], lg) IN
            /\ pc' = [pc EXCEPT ![r] = nx.pc]
            /\ iterations' = [iterations EXCEPT ![r] = nx.iterations]
            /\ log' = [log EXCEPT ![r] = nx.log]
       ELSE /\ pc' = [pc EXCEPT ![r] = "done"]
            /\ iterations' = iterations
            /\ log' = [log EXCEPT ![r] = RunCatch(lg, "persist failed")]
    /\ UNCHANGED <<nonAgentVars, open, closedAt, joined, nruns, maxIterations, stub, calls, history,
                   fullContent, toolCalls, toolResults>>

\* ws.on("close"): the connection forgets the project and the chat; the
\* invocations in progress keep the agent they created and go on
Close ==
    /\ open
    /\ open' = FALSE
    /\ joined' = FALSE
    /\ closedAt' = [r \in RunIds |-> Len(log[r])]
    /\ UNCHANGED <<nonAgentVars, nruns, storage, maxIterations, stub, calls, pc, history,
                   iterations, fullContent, toolCalls, toolResults, log>>

\* ------------------------------------------------- the streaming decoders
\* A response body is text. Its atoms are the pieces a network read can cut
\* it into: the newline, the `data: ` prefix of a line and the two halves of
\* the payload that follows it; e names the payload.
Atom(a, e) == [a |-> a, e |-> e]
NL == Atom("nl", "")
DataLine(e) == <<Atom("data", ""), Atom("h1", e), Atom("h2", e)>>

\* the JSON document a payload encodes
Event(type, sub, id, name, text, parts) ==
    [type |-> type, sub |-> sub, id |-> id, name |-> name, text |-> text,
     parts |-> parts]

\* argument text arrives in fragments: "L" then "R" is the text of the object
\* {"path": "x"}, "E" is the text `{}`; any other concatenation is not JSON
ValidJSON(frags) == frags \in {<<"L", "R">>, <<"E">>}
JSONParse(frags) == IF frags = <<"L", "R">> THEN "path_x" ELSE "empty"

\* OpenAI: a delta with content and/or tool_calls, and the literal `[DONE]`
OpenAIDelta(text, parts) == Event("delta", "", "", "", text, parts)
OpenAIEvents == {"content", "start0", "start1", "argsL", "argsR", "args1", "[DONE]"}

\* Anthropic: content blocks
AnthropicEvents ==
    {"tool_use", "text_delta", "jsonL", "jsonR", "content_block_stop", "message_stop"}

\* Google: candidates[0].content.parts; a part is a text or a functionCall
\* whose args arrive parsed; "junk" is a payload that is not JSON
GoogleCandidate(parts) == Event("candidate", "", "", "", "", parts)
GoogleEvents == {"text", "call", "two_calls", "junk"}

Doc(e) ==
    CASE e = "content" -> OpenAIDelta("a", <<>>)
      [] e = "start0" -> OpenAIDelta("", <<Part(0, "id1", "read_file", "", "")>>)
      [] e = "start1" -> OpenAIDelta("", <<Part(1, "id2", "list_directory", "", "")>>)
      [] e = "argsL" -> OpenAIDelta("", <<Part(0, "", "", "L", "")>>)
      [] e = "argsR" -> OpenAIDelta("", <<Part(0, "", "", "R", "")>>)
      [] e = "args1" -> OpenAIDelta("", <<Part(1, "id2", "list_directory", "E", "")>>)
      [] e = "tool_use" ->
           Event("content_block_start", "tool_use", "id1", "read_file", "", <<>>)
      [] e = "text_delta" ->
           Event("content_block_delta", "text_delta", "", "", "a", <<>>)
      [] e = "jsonL" ->
           Event("content_block_delta", "input_json_delta", "", "", "L", <<>>)
      [] e = "jsonR" ->
           Event("content_block_delta", "input_json_delta", "", "", "R", <<>>)
      [] e = "text" -> GoogleCandidate(<<Part(0, "", "", "", "a")>>)
      [] e = "call" -> GoogleCandidate(<<Part(0, "", "read_file", "path_x", "")>>)
      [] e = "two_calls" ->
           GoogleCandidate(<<Part(0, "", "read_file", "path_x", ""),
                             Part(0, "", "read_file", "empty", "")>>)
      [] OTHER -> Event(e, "", "", "", "", <<>>)

EventsOfVendor(v) ==
    CASE v = "openai" -> OpenAIEvents
      [] v = "anthropic" -> AnthropicEvents
      [] OTHER -> GoogleEvents

\* sequences of at most n events
RECURSIVE EventSeqs(_, _)
EventSeqs(S, n) ==
    IF n = 0 THEN {<<>>}
    ELSE LET T == EventSeqs(S, n - 1) IN
         T \cup {Append(s, x) : s \in {t \in T : Len(t) = n - 1}, x \in S}

\* the longest body, in atoms
BodyLen == 4 * MaxLines

\* the body that carries the events one per line; the last line may come
\* without its newline
RECURSIVE Body(_, _)
Body(events, terminated) ==
    IF events = <<>> THEN <<>>
    ELSE DataLine(Head(events))
         \o (IF Len(events) > 1 \/ terminated THEN <<NL>> ELSE <<>>)
         \o Body(Tail(events), terminated)

\* AIStreamChunk as a decoder yields it (args: the arguments of a tool call)
Yielded(type, text, id, name, args) ==
    [type |-> type, text |-> text, id |-> id, name |-> name, args |-> args]
YContent(text) == Yielded("content", text, "", "", "")
YToolCall(id, name, args) == Yielded("tool_call", "", id, name, args)
YError == Yielded("error", "", "", "", "")
YDone == Yielded("done", "", "", "", "")

\* buffer.split("\n"): the pieces between the newlines, the last one included
RECURSIVE Split(_, _, _)
Split(atoms, cur, acc) ==
    IF atoms = <<>> THEN Append(acc, cur)
    ELSE IF Head(atoms).a = "nl" THEN Split(Tail(atoms), <<>>, Append(acc, cur))
    ELSE Split(Tail(atoms), Append(cur, Head(atoms)), acc)

\* line.startsWith("data: ") and line.slice(6)
StartsWithData(line) == Len(line) >= 1 /\ line[1].a = "data"
Slice6(line) == Tail(line)

\* JSON.parse(data) succeeds on a whole payload that is JSON
IsPayload(data) ==
    /\ Len(data) = 2
    /\ data[1].a = "h1" /\ data[2].a = "h2"
    /\ data[1].e = data[2].e
Parses(data) == IsPayload(data) /\ data[1].e \notin {"[DONE]", "junk"}
Parsed(data) == Doc(data[1].e)

\* the local state of a decoder between two lines
DecState(tcmap, cur, input, out, p) ==
    [calls |-> tcmap, cur |-> cur, input |-> input, out |-> out, pc |-> p]

\* OpenAI toolCalls Map: get(tc.index) || {}, the three assignments, set
Entry(idx, id, name, hasArgs, args) ==
    [idx |-> idx, id |-> id, name |-> name, hasArgs |-> hasArgs, args |-> args]
Merge(existing, tc) ==
    Entry(tc.idx,
          IF tc.id # "" THEN tc.id ELSE existing.id,
          IF tc.name # "" THEN tc.name ELSE existing.name,
          existing.hasArgs \/ tc.frag # "",
          IF tc.frag # "" THEN Append(existing.args, tc.frag) ELSE existing.args)
\* (mutant) one buffer for the whole response: every delta goes to the first entry
UpsertShared(tcmap, tc) ==
    IF tcmap # <<>>
    THEN [i \in 1..Len(tcmap) |-> IF i = 1 THEN Merge(tcmap[i], tc) ELSE tcmap[i]]
    ELSE Append(tcmap, Merge(Entry(tc.idx, "", "", FALSE, <<>>), tc))

Upsert(tcmap, tc) ==
    IF \E i \in 1..Len(tcmap) : tcmap[i].idx = tc.idx
    THEN [i \in 1..Len(tcmap) |->
            IF tcmap[i].idx = tc.idx THEN Merge(tcmap[i], tc) ELSE tcmap[i]]
    ELSE Append(tcmap, Merge(Entry(tc.idx, "", "", FALSE, <<>>), tc))

RECURSIVE UpsertAll(_, _)
UpsertAll(tcmap, tcs) ==
    IF tcs = <<>> THEN tcmap ELSE UpsertAll(Upsert(tcmap, Head(tcs)), Tail(tcs))

\* OpenAIProvider.streamComplete, one line
OpenAIOnDoneReturns(st) == [st EXCEPT !.out = Append(@, YDone), !.pc = "done"]
OpenAILine(line, st) ==
    IF ~StartsWithData(line) THEN st
    ELSE IF Slice6(line) = Tail(DataLine("[DONE]")) THEN OpenAIOnDoneReturns(st)
    ELSE IF ~Parses(Slice6(line)) THEN st
    ELSE LET delta == Parsed(Slice6(line)) IN
         [st EXCEPT !.out = IF delta.text # "" THEN Append(@, YContent(delta.text)) ELSE @,
                    !.calls = UpsertAll(@, delta.parts)]

\* OpenAIProvider.streamComplete after the read loop: the tool calls of the
\* Map, then done; JSON.parse of the arguments is not guarded
RECURSIVE OpenAIEmit(_, _)
OpenAIEmit(tcmap, st) ==
    IF tcmap = <<>> THEN [st EXCEPT !.out = Append(@, YDone), !.pc = "done"]
    ELSE LET tc == Head(tcmap) IN
         IF tc.id = "" \/ tc.name = "" THEN OpenAIEmit(Tail(tcmap), st)
         ELSE IF ~tc.hasArgs
              THEN OpenAIEmit(Tail(tcmap),
                     [st EXCEPT !.out = Append(@, YToolCall(tc.id, tc.name, "undefined"))])
         ELSE IF ValidJSON(tc.args)
              THEN OpenAIEmit(Tail(tcmap),
                     [st EXCEPT !.out = Append(@, YToolCall(tc.id, tc.name, JSONParse(tc.args)))])
         ELSE [st EXCEPT !.pc = "threw"]

\* AnthropicProvider.streamComplete, one line
AnthropicArguments(input) == IF ValidJSON(input) THEN JSONParse(input) ELSE "empty"
AnthropicLine(line, st) ==
    IF ~StartsWithData(line) \/ ~Parses(Slice6(line)) THEN st
    ELSE LET parsed == Parsed(Slice6(line)) IN
         CASE parsed.type = "content_block_start" ->
                IF parsed.sub = "tool_use"
                THEN [st EXCEPT !.cur = Part(0, parsed.id, parsed.name, "", ""),
                                !.input = <<>>]
                ELSE st
           [] parsed.type = "content_block_delta" ->
                IF parsed.sub = "text_delta"
                THEN [st EXCEPT !.out = Append(@, YContent(parsed.text))]
                ELSE IF parsed.sub = "input_json_delta"
                THEN [st EXCEPT !.input = Append(@, parsed.text)]
                ELSE st
           [] parsed.type = "content_block_stop" ->
                IF st.cur # NoPart
                THEN [st EXCEPT !.out = Append(@, YToolCall(st.cur.id, st.cur.name,
                                                     AnthropicArguments(st.input))),
                                !.cur = NoPart]
                ELSE st
           [] parsed.type = "message_stop" ->
                [st EXCEPT !.out = Append(@, YDone), !.pc = "done"]
           [] OTHER -> st

\* GoogleProvider.streamComplete, one line
RECURSIVE GoogleParts(_, _)
GoogleParts(parts, out) ==
    IF parts = <<>> THEN out
    ELSE LET part == Head(parts) IN
         GoogleParts(Tail(parts),
            IF part.text # "" THEN Append(out, YContent(part.text))
            ELSE IF part.name # "" THEN Append(out, YToolCall(part.name, part.name, part.frag))
            ELSE out)
GoogleLine(line, st) ==
    IF ~StartsWithData(line) \/ ~Parses(Slice6(line)) THEN st
    ELSE [st EXCEPT !.out = GoogleParts(Parsed(Slice6(line)).parts, @)]

OnLine(v, line, st) ==
    CASE v = "openai" -> OpenAILine(line, st)
      [] v = "anthropic" -> AnthropicLine(line, st)
      [] OTHER -> GoogleLine(line, st)

\* `for (const line of lines)`, left by the return of a done
RECURSIVE OnLines(_, _, _)
OnLines(v, lines, st) ==
    IF lines = <<>> \/ st.pc # "reading" THEN st
    ELSE OnLines(v, Tail(lines), OnLine(v, Head(lines), st))

\* the generator has returned or thrown: its locals are gone
Returned ==
    /\ dbuffer' = <<>>
    /\ dcalls' = <<>>
    /\ dcur' = NoPart
    /\ dinput' = <<>>

\* the response of the vendor: response.ok, response.status, what
\* response.text() gives and whether response.body is there
FetchResponse(ok, status, text, body) ==
    [ok |-> ok, status |-> status, text |-> text, body |-> body]
NoResponse == FetchResponse(FALSE, 0, "", FALSE)
FetchResponses ==
    {FetchResponse(TRUE, 200, "", b) : b \in BOOLEAN}
    \cup {FetchResponse(FALSE, st, t, TRUE) : st \in {429, 500}, t \in {"", "quota"}}

\* the error texts: `${label} API error: ${response.status} - ${error}` and
\* "No response body"
ErrorText(label, status, text) == [label |-> label, status |-> status, text |-> text]
NoError == ErrorText("", 0, "")
Label(v) ==
    CASE v = "openai" -> "OpenAI" [] v = "anthropic" -> "Anthropic" [] OTHER -> "Google"
\* (mutant) the error text names the vendor only
APIErrorBare(v, response) == ErrorText(Label(v), 0, "")
APIError(v, response) == ErrorText(Label(v), response.status, response.text)
NoBodyError == ErrorText("No response body", 0, "")

\* streamComplete, fetch resolves: a status that is not ok and a response
\* without a body yield an error and return
Fetch(response) ==
    /\ dpc = "fetch"
    /\ dmethod' = "streamComplete"
    /\ dresponse' = response
    /\ IF response.ok /\ response.body
       THEN dpc' = "reading" /\ dout' = dout /\ derror' = NoError
       ELSE /\ dpc' = "done"
            /\ dout' = Append(dout, YError)
            /\ derror' = IF ~response.ok THEN APIError(dvendor, response) ELSE NoBodyError
    /\ UNCHANGED <<nonDecVars, dvendor, dstream, dpos, dbuffer, dcalls, dcur, dinput, dsplit>>

\* complete, fetch resolves: a status that is not ok throws, any other
\* response is turned into the result that is returned
Complete(response) ==
    /\ dpc = "fetch"
    /\ dmethod' = "complete"
    /\ dresponse' = response
    /\ IF response.ok
       THEN dpc' = "resolved" /\ derror' = NoError
       ELSE dpc' = "rejected" /\ derror' = APIError(dvendor, response)
    /\ UNCHANGED <<nonDecVars, dvendor, dstream, dpos, dbuffer, dcalls, dcur, dinput, dout, dsplit>>

\* (mutant) the unfinished last line is dropped between two reads
PendingDropped(lines) == <<>>
\* `buffer = lines.pop() || ""`: the unfinished last line stays in the buffer
Pending(lines) == lines[Len(lines)]

\* reader.read() resolves with the next n atoms of the body
Read(n) ==
    /\ dpc = "reading"
    /\ dpos + n <= Len(dstream)
    /\ \E lines \in {Split(dbuffer \o SubSeq(dstream, dpos + 1, dpos + n), <<>>, <<>>)} :
       \E st \in {OnLines(dvendor, SubSeq(lines, 1, Len(lines) - 1),
                          DecState(dcalls, dcur, dinput, dout, "reading"))} :
          /\ dpos' = dpos + n
          /\ dsplit' = (dsplit \/ dstream[dpos + n].a = "h1")
          /\ dout' = st.out
          /\ dpc' = st.pc
          /\ IF st.pc = "reading"
             THEN /\ dbuffer' = Pending(lines)
                  /\ dcalls' = st.calls
                  /\ dcur' = st.cur
                  /\ dinput' = st.input
             ELSE Returned
    /\ UNCHANGED <<nonDecVars, dvendor, dstream, dmethod, dresponse, derror>>

\* reader.read() resolves with done: what follows the read loop
ReadDone ==
    /\ dpc = "reading"
    /\ dpos = Len(dstream)
    /\ LET st == IF dvendor = "openai"
                 THEN OpenAIEmit(dcalls, DecState(dcalls, dcur, dinput, dout, "reading"))
                 ELSE DecState(dcalls, dcur, dinput, Append(dout, YDone), "done")
       IN dout' = st.out /\ dpc' = st.pc
    /\ Returned
    /\ UNCHANGED <<nonDecVars, dvendor, dstream, dpos, dmethod, dresponse, derror, dsplit>>

\* reader.read() rejects: the generator throws
ReadFails ==
    /\ dpc = "reading"
    /\ dpc' = "failed"
    /\ Returned
    /\ UNCHANGED <<nonDecVars, dvendor, dstream, dpos, dout, dmethod, dresponse, derror, dsplit>>

\* ------------------------------------------------------ the tool executor
\* A path is the sequence of its segments below "/"; a path argument is a
\* string, absolute or not, with segments that may be "..".
projectDir == <<"a">>

RECURSIVE SegSeqs(_)
SegSeqs(n) ==
    IF n = 0 THEN {<<>>}
    ELSE LET T == SegSeqs(n - 1) IN
         T \cup {Append(s, x) : s \in {t \in T : Len(t) = n - 1},
                                x \in {"..", "a", "ab", "x"}}
PathArgs == {[abs |-> b, segs |-> s] : b \in BOOLEAN, s \in SegSeqs(MaxSegs)}

\* the characters of a segment and of an absolute path
Chars(seg) == IF seg = "ab" THEN <<"a", "b">> ELSE <<seg>>
RECURSIVE Str(_)
Str(p) == IF p = <<>> THEN <<>> ELSE <<"/">> \o Chars(Head(p)) \o Str(Tail(p))

\* path.resolve(projectDir, relativePath): an absolute argument replaces the
\* project directory; ".." leaves a directory and stays at "/"
RECURSIVE Normalize(_, _)
Normalize(segs, acc) ==
    IF segs = <<>> THEN acc
    ELSE IF Head(segs) = ".."
         THEN Normalize(Tail(segs), IF acc = <<>> THEN acc ELSE SubSeq(acc, 1, Len(acc) - 1))
         ELSE Normalize(Tail(segs), Append(acc, Head(segs)))
Resolve(arg) == Normalize(arg.segs, IF arg.abs THEN <<>> ELSE projectDir)

\* String.prototype.startsWith
StartsWith(s, prefix) == Len(s) >= Len(prefix) /\ SubSeq(s, 1, Len(prefix)) = prefix

\* ToolExecutor.resolvePath does not throw
Allowed(arg) == StartsWith(Str(Resolve(arg)), Str(projectDir))

\* the filesystem: the directories and the files that exist ("/" always does)
\* and one symbolic link, at flink, that points to the directory /ab outside
\* the project directory; NoLink when the link has been removed
NoLink == <<"-">>
LinkTo == <<"ab">>
Dirname(p) == IF p = <<>> THEN p ELSE SubSeq(p, 1, Len(p) - 1)
Prefixes(p) == {SubSeq(p, 1, n) : n \in 1..Len(p)}
Under(p, d) == Len(p) >= Len(d) /\ SubSeq(p, 1, Len(d)) = d
Moved(p, s, d) == d \o SubSeq(p, Len(s) + 1, Len(p))

\* the location the operating system reaches from a path: a path at or
\* beneath the link continues at the link's target (a link that has come to
\* lie at its own target leads nowhere)
Follow(p) ==
    IF flink # NoLink /\ flink # LinkTo /\ Under(p, flink)
    THEN Moved(p, flink, LinkTo) ELSE p
Phys(p) == Follow(Follow(p))
\* the directory entry a path names: links are followed in the directory part
\* only (lstat, unlink, rename)
EntryOf(p) == IF p = <<>> THEN p ELSE Append(Phys(Dirname(p)), p[Len(p)])
IsLink(p) == flink # NoLink /\ p # <<>> /\ EntryOf(p) = flink

\* fs.stat follows links
IsDir(p) == Phys(p) = <<>> \/ Phys(p) \in fdirs
IsFile(p) == Phys(p) \in ffiles
Exists(p) == IsDir(p) \/ IsFile(p)
Children(d) == {p \in fdirs \cup ffiles : Len(p) = Len(d) + 1 /\ Under(p, d)}
Subtree(d) == {p \in fdirs \cup ffiles : Under(p, d)}

\* fs.mkdir(p, {recursive: true}) succeeds unless a file or a link that leads
\* to no directory is in the way; it makes the directories where p leads
CanMkdir(p) == \A q \in Prefixes(p) : ~IsFile(q) /\ (IsLink(q) => IsDir(q))
MkdirP(p) == fdirs \cup Prefixes(Phys(p))

\* fs.rename(s, d) succeeds, s and d being directory entries and dirs the
\* directories that exist when it is called
CanRename(s, d, dirs) ==
    /\ s # <<>> /\ (s \in dirs \/ s \in ffiles \/ s = flink)
    /\ Dirname(d) = <<>> \/ Dirname(d) \in dirs
    /\ s = d \/ ~Under(d, s)
    /\ s \in dirs => /\ d \notin ffiles /\ d # flink /\ d # <<>>
                     /\ (d \in dirs /\ d # s) => Children(d) = {} /\ Dirname(flink) # d
    /\ s \notin dirs => d \notin dirs /\ d # <<>>

\* (mutant) the catch of execute() returns the text without the flag
CaughtUnflagged(raised) == FALSE

\* ToolExecutor.execute: `return { toolCallId, result }` leaves isError unset,
\* the catch sets it
Caught(raised) == raised

\* the names execute() dispatches on, and a name outside the catalog
FileTools ==
    {"read_file", "write_file", "list_directory", "create_directory", "delete_file",
     "move_file"}
OtherTools ==
    {"execute_shell", "web_search", "get_system_info", "install_package",
     "git_operation", "deploy", "manage_process", "set_env_variable"}
ToolNames == FileTools \cup OtherTools \cup {"no_such_tool"}

\* the case of the switch reads a property of args
ReadsArgs(toolName) == toolName \in (FileTools \cup OtherTools) \ {"get_system_info"}

\* the tool of a call, its recursive flag, and whether its path named a
\* directory that had entries when it was called
Last(tool, recursive, nonEmptyDir) ==
    [tool |-> tool, recursive |-> recursive, nonEmptyDir |-> nonEmptyDir]
NonEmptyDir(p) ==
    /\ IsDir(p) /\ ~IsLink(p)
    /\ Children(Phys(p)) # {} \/ Dirname(flink) = Phys(p)

\* (mutant) fs.rm removes a directory also without the recursive option
RmNeverRefuses(isDirectory, recursive) == FALSE

\* fs.rm(path, {recursive}) of a directory throws unless recursive is set
RmRefuses(isDirectory, recursive) == isDirectory /\ ~recursive

\* a path beneath the project directory that passes through the link and
\* leads outside the project directory
ViaLink(p) ==
    /\ Under(p, projectDir) /\ StartsWith(Str(p), Str(projectDir))
    /\ flink # NoLink /\ Under(p, flink) /\ p # flink
    /\ ~Under(Phys(p), projectDir)

\* ToolExecutor.execute: what the call returns, the paths it handed to fs
\* functions, and whether an argument resolved outside the project directory
Returns(result, io, args) ==
    /\ fresult' = result
    /\ fflag' = Caught(result # "ok")
    /\ fraised' = (result # "ok")
    /\ fio' = io
    /\ foutside' = \E i \in 1..Len(args) : ~Under(Resolve(args[i]), projectDir)
    /\ fvia' = \E i \in 1..Len(args) : ViaLink(Resolve(args[i]))
    /\ fops' = fops + 1
Traversal(args) ==
    /\ Returns("Error: Path traversal not allowed", {}, args)
    /\ UNCHANGED <<fdirs, ffiles, flink>>

ReadFile(arg) ==
    /\ fops < MaxOps
    /\ flast' = Last("read_file", FALSE, FALSE)
    /\ LET fullPath == Resolve(arg) IN
       IF ~Allowed(arg) THEN Traversal(<<arg>>)
       ELSE /\ Returns(IF IsFile(fullPath) THEN "ok" ELSE "Error", {fullPath}, <<arg>>)
            /\ UNCHANGED <<fdirs, ffiles, flink>>
    /\ UNCHANGED nonFsVars

\* fs.writeFile follows a link at the path and makes the file the link leads to
WriteFile(arg) ==
    /\ fops < MaxOps
    /\ flast' = Last("write_file", FALSE, FALSE)
    /\ LET fullPath == Resolve(arg) IN
       IF ~Allowed(arg) THEN Traversal(<<arg>>)
       ELSE IF ~CanMkdir(Dirname(fullPath))
       THEN /\ Returns("Error", {Dirname(fullPath)}, <<arg>>)
            /\ UNCHANGED <<fdirs, ffiles, flink>>
       ELSE /\ fdirs' = MkdirP(Dirname(fullPath))
            /\ flink' = flink
            /\ IF IsDir(fullPath) \/ (IsLink(fullPath) /\ flink = LinkTo)
               THEN /\ Returns("Error", {Dirname(fullPath), fullPath}, <<arg>>)
                    /\ ffiles' = ffiles
               ELSE /\ Returns("ok", {Dirname(fullPath), fullPath}, <<arg>>)
                    /\ ffiles' = ffiles \cup {Phys(fullPath)}
    /\ UNCHANGED nonFsVars

\* readdir lists the link as an entry that is not a directory, and fs.stat of
\* that entry follows it
ListDirectory(arg, recursive) ==
    /\ fops < MaxOps
    /\ flast' = Last("list_directory", recursive, FALSE)
    /\ LET fullPath == Resolve(arg)
           dir == Phys(fullPath)
           visited == {dir} \cup (IF recursive THEN Subtree(dir) \cap fdirs ELSE {})
           stated == IF recursive THEN Subtree(dir) ELSE Children(dir) \cap ffiles
           seesLink == flink # NoLink /\ Dirname(flink) \in visited
       IN
       IF ~Allowed(arg) THEN Traversal(<<arg>>)
       ELSE /\ IF IsDir(fullPath)
               THEN Returns(IF seesLink /\ ~Exists(flink) THEN "Error" ELSE "ok",
                            {fullPath} \cup {Moved(q, dir, fullPath) : q \in stated}
                                       \cup (IF seesLink
                                             THEN {Moved(flink, dir, fullPath)} ELSE {}),
                            <<arg>>)
               ELSE Returns("Error", {fullPath}, <<arg>>)
            /\ UNCHANGED <<fdirs, ffiles, flink>>
    /\ UNCHANGED nonFsVars

CreateDirectory(arg) ==
    /\ fops < MaxOps
    /\ flast' = Last("create_directory", FALSE, FALSE)
    /\ LET fullPath == Resolve(arg) IN
       IF ~Allowed(arg) THEN Traversal(<<arg>>)
       ELSE /\ Returns(IF CanMkdir(fullPath) THEN "ok" ELSE "Error", {fullPath}, <<arg>>)
            /\ fdirs' = IF CanMkdir(fullPath) THEN MkdirP(fullPath) ELSE fdirs
            /\ UNCHANGED <<ffiles, flink>>
    /\ UNCHANGED nonFsVars

\* fs.stat follows a link; fs.rm and fs.unlink remove the link itself
DeleteFile(arg, recursive) ==
    /\ fops < MaxOps
    /\ flast' = Last("delete_file", recursive, NonEmptyDir(Resolve(arg)))
    /\ LET fullPath == Resolve(arg)
           target == Phys(fullPath)
       IN
       IF ~Allowed(arg) THEN Traversal(<<arg>>)
       ELSE IF ~Exists(fullPath) \/ fullPath = <<>>
       THEN /\ Returns("Error", {fullPath}, <<arg>>)
            /\ UNCHANGED <<fdirs, ffiles, flink>>
       ELSE IF IsLink(fullPath)
       THEN /\ Returns("ok", {fullPath}, <<arg>>)
            /\ flink' = NoLink
            /\ UNCHANGED <<fdirs, ffiles>>
       ELSE IF RmRefuses(IsDir(fullPath), recursive)
       THEN /\ Returns("Error", {fullPath}, <<arg>>)
            /\ UNCHANGED <<fdirs, ffiles, flink>>
       ELSE /\ Returns("ok", {fullPath}, <<arg>>)
            /\ fdirs' = fdirs \ Subtree(target)
            /\ ffiles' = ffiles \ Subtree(target)
            /\ flink' = IF flink # NoLink /\ Under(flink, target) THEN NoLink ELSE flink
    /\ UNCHANGED nonFsVars

\* fs.rename moves a link itself and replaces a link or a file at the
\* destination
MoveFile(source, destination) ==
    /\ fops < MaxOps
    /\ flast' = Last("move_file", FALSE, FALSE)
    /\ LET sourcePath == Resolve(source)
           destPath == Resolve(destination)
           args == <<source, destination>>
       IN IF ~Allowed(source) \/ ~Allowed(destination) THEN Traversal(args)
          ELSE IF ~CanMkdir(Dirname(destPath))
          THEN /\ Returns("Error", {Dirname(destPath)}, args)
               /\ UNCHANGED <<fdirs, ffiles, flink>>
          ELSE LET dirs == MkdirP(Dirname(destPath))
                   io == {Dirname(destPath), sourcePath, destPath}
                   s == EntryOf(sourcePath)
                   d == EntryOf(destPath)
               IN IF ~CanRename(s, d, dirs)
                  THEN /\ Returns("Error", io, args)
                       /\ fdirs' = dirs
                       /\ UNCHANGED <<ffiles, flink>>
                  ELSE IF s = d
                  THEN /\ Returns("ok", io, args)
                       /\ fdirs' = dirs
                       /\ UNCHANGED <<ffiles, flink>>
                  ELSE IF s = flink
                  THEN /\ Returns("ok", io, args)
                       /\ fdirs' = dirs
                       /\ ffiles' = ffiles \ {d}
                       /\ flink' = d
                  ELSE /\ Returns("ok", io, args)
                       /\ fdirs' = {IF Under(p, s) THEN Moved(p, s, d) ELSE p : p \in dirs}
                       /\ ffiles' = {IF Under(p, s) THEN Moved(p, s, d) ELSE p : p \in ffiles}
                       /\ flink' = IF flink = d THEN NoLink
                                   ELSE IF flink # NoLink /\ Under(flink, s)
                                   THEN Moved(flink, s, d) ELSE flink
    /\ UNCHANGED nonFsVars

\* execute() for a name outside the catalog, for an argument bag that is
\* undefined (bag = FALSE) and for the tools that do not work on paths;
\* raises is whether the body of the tool raised an exception
Execute(toolName, bag, raises) ==
    /\ fops < MaxOps
    /\ flast' = Last(toolName, FALSE, FALSE)
    /\ toolName \in FileTools => ~bag
    /\ LET raised == \/ toolName \notin FileTools \cup OtherTools
                     \/ ~bag /\ ReadsArgs(toolName)
                     \/ raises
       IN Returns(IF raised THEN "Error" ELSE "ok", {}, <<>>)
    /\ UNCHANGED <<fdirs, ffiles, flink>>
    /\ UNCHANGED nonFsVars

\* ------------------------------------- the tools that do not work on paths
\* manage_process without a pid (`!pid` also holds for the pid 0)
NoPid == 0
\* a process of the host that the executor did not spawn
Foreign == MaxPids + 1
PidArgs == NoPid..Foreign
Commands == {"c1", "c2"}

\* Map.set and Map.delete
MapSet(map, key, value) ==
    [k \in DOMAIN map \cup {key} |-> IF k = key THEN value ELSE map[k]]
MapDelete(map, key) == [k \in DOMAIN map \ {key} |-> map[k]]
EmptyMap == [k \in {} |-> ""]

envState == <<envFile, envVars, envCalls>>
procState == <<backgroundProcesses, alive, nextPid, spawned, targeted>>

\* what the last call was and did: the pid it was given, whether that pid was
\* in the record, the pids it sent a signal to, the record before the call
Call(action, pid, signalled) ==
    [action |-> action, pid |-> pid, known |-> pid \in DOMAIN backgroundProcesses,
     signalled |-> signalled, before |-> backgroundProcesses]
NoCall == [action |-> "", pid |-> NoPid, known |-> FALSE, signalled |-> {},
           before |-> EmptyMap]

\* ToolExecutor.execute around a tool: the result and its flag
ToolReturns(call, raised) ==
    /\ tlast' = call
    /\ tflag' = Caught(raised)
    /\ tops' = tops + 1

\* executeShell(command, true): spawn, record under child.pid, resolve
ShellBackground(command) ==
    /\ tops < MaxToolOps
    /\ nextPid <= MaxPids
    /\ backgroundProcesses' = MapSet(backgroundProcesses, nextPid, command)
    /\ alive' = alive \cup {nextPid}
    /\ nextPid' = nextPid + 1
    /\ spawned' = spawned \cup {nextPid}
    /\ targeted' = targeted
    /\ ToolReturns(Call("spawn", nextPid, {}), FALSE)
    /\ UNCHANGED <<envState, tshell>>
    /\ UNCHANGED nonToolVars

\* manageProcess("list")
ListProcesses ==
    /\ tops < MaxToolOps
    /\ ToolReturns(Call("list", NoPid, {}), FALSE)
    /\ UNCHANGED <<procState, envState, tshell>>
    /\ UNCHANGED nonToolVars

\* manageProcess("kill", pid): process.kill throws when no process has the
\* pid, and the record is changed only after it returned
Kill(pid) ==
    /\ tops < MaxToolOps
    /\ IF pid = NoPid
       THEN /\ ToolReturns(Call("kill", pid, {}), TRUE)
            /\ UNCHANGED <<backgroundProcesses, alive, targeted>>
       ELSE /\ targeted' = targeted \cup ({pid} \cap spawned)
            /\ IF pid \in alive
               THEN /\ alive' = alive \ {pid}
                    /\ backgroundProcesses' = MapDelete(backgroundProcesses, pid)
                    /\ ToolReturns(Call("kill", pid, {pid}), FALSE)
               ELSE /\ ToolReturns(Call("kill", pid, {}), TRUE)
                    /\ UNCHANGED <<backgroundProcesses, alive>>
    /\ UNCHANGED <<nextPid, spawned, envState, tshell>>
    /\ UNCHANGED nonToolVars

\* manageProcess("restart", pid): the record is looked up first; a kill that
\* throws is swallowed together with the delete that follows it; then
\* executeShell(info.command, true)
Restart(pid) ==
    /\ tops < MaxToolOps
    /\ IF pid = NoPid \/ pid \notin DOMAIN backgroundProcesses
       THEN /\ ToolReturns(Call("restart", pid, {}), TRUE)
            /\ targeted' = targeted \cup ({pid} \cap spawned)
            /\ UNCHANGED <<backgroundProcesses, alive, nextPid, spawned>>
       ELSE /\ nextPid <= MaxPids
            /\ LET info == backgroundProcesses[pid]
                   killed == pid \in alive
                   record == IF killed THEN MapDelete(backgroundProcesses, pid)
                             ELSE backgroundProcesses
               IN /\ backgroundProcesses' = MapSet(record, nextPid, info)
                  /\ alive' = (alive \ {pid}) \cup {nextPid}
                  /\ ToolReturns(Call("restart", pid, IF killed THEN {pid} ELSE {}), FALSE)
            /\ nextPid' = nextPid + 1
            /\ spawned' = spawned \cup {nextPid}
            /\ targeted' = targeted \cup {pid}
    /\ UNCHANGED <<envState, tshell>>
    /\ UNCHANGED nonToolVars

\* a background process ends by itself
Exit(pid) ==
    /\ pid \in alive \cap spawned
    /\ alive' = alive \ {pid}
    /\ UNCHANGED <<backgroundProcesses, nextPid, spawned, targeted, tlast, tflag, tops>>
    /\ UNCHANGED <<envState, tshell>>
    /\ UNCHANGED nonToolVars

\* ---- set_env_variable. A line of the .env file is `key=value`; a value is
\* a short text, one of them the two characters `$$`.
Keys == {"K", "K+"}
Values == {"v1", "v2", "$$"}
Line(key, value) == [key |-> key, value |-> value]

\* new RegExp(`^${key}=.*$`, "m") matches the line: the key is put into the
\* pattern as it is, so `K+` stands for one or more K
RegexMatches(key, line) == IF key = "K+" THEN line.key = "K" ELSE line.key = key

\* the text String.prototype.replace puts for a replacement string: `$$`
\* stands for one `$`
Replacement(text) == IF text = "$$" THEN "$" ELSE text

\* envContent.replace(regex, newLine): the first match only
ReplaceFirst(lines, key, value) ==
    LET i == CHOOSE j \in 1..Len(lines) :
                /\ RegexMatches(key, lines[j])
                /\ \A k \in 1..(j - 1) : ~RegexMatches(key, lines[k])
    IN [lines EXCEPT ![i] = Line(Replacement(key), Replacement(value))]

\* setEnvVariable(key, value, persist)
SetEnvVariable(key, value, persist) ==
    /\ tops < MaxToolOps
    /\ envVars' = MapSet(envVars, key, value)
    /\ IF persist
       THEN /\ envFile' = IF \E j \in 1..Len(envFile) : RegexMatches(key, envFile[j])
                          THEN ReplaceFirst(envFile, key, value)
                          ELSE Append(envFile, Line(key, value))
            /\ envCalls' = Append(envCalls, Line(key, value))
       ELSE UNCHANGED <<envFile, envCalls>>
    /\ ToolReturns(Call("set_env", NoPid, {}), FALSE)
    /\ UNCHANGED <<procState, tshell>>
    /\ UNCHANGED nonToolVars

\* ---- execute_shell in the foreground. How a command ends: exec killed it
\* at the timeout, or it exited with a code (or by a signal of somebody else:
\* signalled), having written to stdout and to stderr or not.
Ending(timedOut, code, signalled, stdout, stderr) ==
    [timedOut |-> timedOut, code |-> code, signalled |-> signalled,
     stdout |-> stdout, stderr |-> stderr]
Endings ==
    {Ending(t, c, g, o, e) :
        t \in BOOLEAN, c \in {0, 1}, g \in BOOLEAN, o \in BOOLEAN, e \in BOOLEAN}
    \ {x \in [timedOut : BOOLEAN, code : {0, 1}, signalled : BOOLEAN,
               stdout : BOOLEAN, stderr : BOOLEAN] :
          (x.timedOut \/ x.signalled) /\ x.code = 0}
\* the timeout argument: absent (0 is falsy as well) or 100 ms
NoTimeout == 0
ShortTimeout == 100
TimeoutArgs == {NoTimeout, ShortTimeout}
\* `timeout || 30000`
DefaultTimeout == 30000
EffectiveTimeout(timeout) == IF timeout = NoTimeout THEN DefaultTimeout ELSE timeout

\* the error exec hands to its callback: null when the command exited with 0
HasError(ending) == ending.timedOut \/ ending.signalled \/ ending.code # 0

\* (mutant) every failed command counts as killed
ErrorKilledAlways(ending) == TRUE

\* error.killed: exec itself killed the child, which it does at the timeout
ErrorKilled(ending) == ending.timedOut

\* what the promise of executeShell settles with
ShellResult(kind, ms, parts) == [kind |-> kind, ms |-> ms, parts |-> parts]
NoShell == [timeout |-> NoTimeout,
            ending |-> Ending(FALSE, 0, FALSE, FALSE, FALSE),
            result |-> ShellResult("", 0, <<>>)]
ExecCallback(timeout, ending) ==
    LET output == (IF ending.stdout THEN <<"stdout">> ELSE <<>>)
                  \o (IF ending.stderr THEN <<"stderr">> ELSE <<>>)
    IN IF HasError(ending) /\ ErrorKilled(ending)
       THEN ShellResult("timed out", timeout, <<>>)
       ELSE IF HasError(ending) /\ ~ending.stdout /\ ~ending.stderr
       THEN ShellResult("failed", 0, <<>>)
       ELSE IF output # <<>> THEN ShellResult("output", 0, output)
       ELSE ShellResult("completed", 0, <<>>)

\* executeShell(command, false, timeout)
ShellForeground(timeout, ending) ==
    /\ tops < MaxToolOps
    /\ LET result == ExecCallback(EffectiveTimeout(timeout), ending) IN
       /\ tshell' = [timeout |-> timeout, ending |-> ending, result |-> result]
       /\ ToolReturns(Call("shell", NoPid, {}), result.kind \in {"timed out", "failed"})
    /\ UNCHANGED <<procState, envState>>
    /\ UNCHANGED nonToolVars

\* ------------------------------------------------- the vendor encodings
\* ToolCall and ToolResult with the fields the encodings read
Invocation(id, name, arguments) == [id |-> id, name |-> name, arguments |-> arguments]
Outcome(toolCallId, result, isError) ==
    [toolCallId |-> toolCallId, result |-> result, isError |-> isError]

\* a message of a vendor request and a part of it: a tool call or a tool
\* result, with the reference, the name, the arguments and the text it holds
Enc(role, text, parts) == [role |-> role, text |-> text, parts |-> parts]
EncPart(kind, ref, name, args, text, err) ==
    [kind |-> kind, ref |-> ref, name |-> name, args |-> args, text |-> text, err |-> err]

\* JSON.stringify of an argument bag and the bag a vendor reads back from it
Stringify(arguments) == <<"json", arguments>>
Unstringify(text) == text[2]

\* OpenAIProvider.formatMessages for one message
OpenAIFormat(msg) ==
    IF msg.role = "tool"
    THEN [k \in 1..Len(msg.toolResults) |->
            Enc("tool", msg.toolResults[k].result,
                <<EncPart("tool_call_id", msg.toolResults[k].toolCallId, "", "", "", FALSE)>>)]
    ELSE <<Enc(msg.role, msg.content,
               [k \in 1..Len(msg.toolCalls) |->
                  EncPart("function", msg.toolCalls[k].id, msg.toolCalls[k].name,
                          Stringify(msg.toolCalls[k].arguments), "", FALSE)])>>

\* a text is a sequence of characters; Blank are the ones trim() strips
Blank == {" ", "\n"}
RECURSIVE TrimStart(_)
TrimStart(text) ==
    IF text # <<>> /\ Head(text) \in Blank THEN TrimStart(Tail(text)) ELSE text
RECURSIVE TrimEnd(_)
TrimEnd(text) ==
    IF text # <<>> /\ text[Len(text)] \in Blank
    THEN TrimEnd(SubSeq(text, 1, Len(text) - 1)) ELSE text
Trim(text) == TrimEnd(TrimStart(text))

\* a field of a request body that was never assigned, and one that holds a text
Undefined == [defined |-> FALSE, text |-> <<>>]
Text(text) == [defined |-> TRUE, text |-> text]
Truthy(field) == field.defined /\ field.text # <<>>

\* AnthropicProvider.formatMessages, the system turns: every content is
\* appended with a newline, the whole is trimmed on return
RECURSIVE AnthropicSystemPrompt(_, _)
AnthropicSystemPrompt(systemPrompt, messages) ==
    IF messages = <<>> THEN systemPrompt
    ELSE AnthropicSystemPrompt(
             IF Head(messages).role = "system"
             THEN Text((IF Truthy(systemPrompt) THEN systemPrompt.text ELSE <<>>)
                       \o Head(messages).content \o <<"\n">>)
             ELSE systemPrompt,
             Tail(messages))
AnthropicSystem(messages) ==
    LET systemPrompt == AnthropicSystemPrompt(Undefined, messages)
    IN IF systemPrompt.defined THEN Text(Trim(systemPrompt.text)) ELSE Undefined

\* GoogleProvider.formatMessages, the system turns: every one assigns
\* systemInstruction anew
RECURSIVE GoogleSystemInstruction(_, _)
GoogleSystemInstruction(systemInstruction, messages) ==
    IF messages = <<>> THEN systemInstruction
    ELSE GoogleSystemInstruction(
             IF Head(messages).role = "system"
             THEN Text(Head(messages).content) ELSE systemInstruction,
             Tail(messages))

\* body.system / body.systemInstruction: assigned when the value is truthy
\* (an object is, an empty string is not); OpenAI has no such field
SystemField(v, messages) ==
    CASE v = "anthropic" ->
           IF Truthy(AnthropicSystem(messages)) THEN AnthropicSystem(messages) ELSE Undefined
      [] v = "google" -> GoogleSystemInstruction(Undefined, messages)
      [] OTHER -> Undefined

\* AnthropicProvider.formatMessages for one message that is not a system turn
AnthropicFormat(msg) ==
    IF msg.role = "tool"
    THEN [k \in 1..Len(msg.toolResults) |->
            Enc("user", "",
                <<EncPart("tool_result", msg.toolResults[k].toolCallId, "", "",
                          msg.toolResults[k].result, msg.toolResults[k].isError)>>)]
    ELSE IF Len(msg.toolCalls) > 0
    THEN <<Enc("assistant", "",
               [k \in 1..Len(msg.toolCalls) |->
                  EncPart("tool_use", msg.toolCalls[k].id, msg.toolCalls[k].name,
                          msg.toolCalls[k].arguments, "", FALSE)])>>
    ELSE <<Enc(IF msg.role = "assistant" THEN "assistant" ELSE "user", msg.content, <<>>)>>

\* GoogleProvider.formatMessages for one message that is not a system turn:
\* a functionCall has a name and args, a functionResponse is named after the
\* toolCallId of the outcome
GoogleFormat(msg) ==
    IF msg.role = "tool"
    THEN <<Enc("function", "",
               [k \in 1..Len(msg.toolResults) |->
                  EncPart("functionResponse", "", msg.toolResults[k].toolCallId, "",
                          msg.toolResults[k].result, FALSE)])>>
    ELSE IF Len(msg.toolCalls) > 0
    THEN <<Enc("model", "",
               [k \in 1..Len(msg.toolCalls) |->
                  EncPart("functionCall", "", msg.toolCalls[k].name,
                          msg.toolCalls[k].arguments, "", FALSE)])>>
    ELSE <<Enc(IF msg.role = "assistant" THEN "model" ELSE "user", msg.content, <<>>)>>

RECURSIVE FormatMessages(_, _)
FormatMessages(v, messages) ==
    IF messages = <<>> THEN <<>>
    ELSE (CASE v = "openai" -> OpenAIFormat(Head(messages))
            [] Head(messages).role = "system" -> <<>>
            [] v = "anthropic" -> AnthropicFormat(Head(messages))
            [] OTHER -> GoogleFormat(Head(messages)))
         \o FormatMessages(v, Tail(messages))

\* the histories run() builds: the outcomes answer the invocations in order
\* and carry their identifiers; the identifiers are the vendor's (scheme
\* "vendor": OpenAI, Anthropic) or the function names (scheme "name": Google)
RECURSIVE InvocationSeqs(_)
InvocationSeqs(n) ==
    IF n = 0 THEN {<<>>}
    ELSE LET T == InvocationSeqs(n - 1) IN
         T \cup {Append(t, [name |-> nm, arguments |-> a, result |-> res]) :
                    t \in {u \in T : Len(u) = n - 1},
                    nm \in {"read_file", "list_directory"},
                    a \in {"path_x", "empty"},
                    res \in {"ok", "Error"}}
IdentifierOf(scheme, k, name) == IF scheme = "vendor" THEN IdOf(k) ELSE name
Turns(scheme, calls_) ==
    << [role |-> "assistant", content |-> "t",
        toolCalls |-> [k \in 1..Len(calls_) |->
                         Invocation(IdentifierOf(scheme, k, calls_[k].name),
                                    calls_[k].name, calls_[k].arguments)],
        toolResults |-> <<>>],
       [role |-> "tool", content |-> "",
        toolCalls |-> <<>>,
        toolResults |-> [k \in 1..Len(calls_) |->
                           Outcome(IdentifierOf(scheme, k, calls_[k].name),
                                   calls_[k].result, calls_[k].result = "Error")]] >>

\* the system turns at the head of a history
SystemTurn(content) ==
    [role |-> "system", content |-> content, toolCalls |-> <<>>, toolResults |-> <<>>]
SystemTurns(contents) == [k \in 1..Len(contents) |-> SystemTurn(contents[k])]

\* this.model.startsWith("o1")
\* (mutant) only the model named o1 itself is special-cased
IsO1ModelExact(model) == model = <<"o", "1">>
IsO1Model(model) == StartsWith(model, <<"o", "1">>)

\* the request apart from its messages: tools is absent or a catalog,
\* maxTokens 0 and temperature "undefined" stand for an absent option
NoCatalog == [defined |-> FALSE, list |-> <<>>]
Catalog(list) == [defined |-> TRUE, list |-> list]
Args(method, tools, maxTokens, temperature) ==
    [method |-> method, tools |-> tools, maxTokens |-> maxTokens, temperature |-> temperature]
NoArgs == Args("none", NoCatalog, 0, "undefined")
DefaultMaxTokens == 4096
DefaultTemperature == "0.7"

\* the body of OpenAIProvider.complete and streamComplete apart from its
\* messages: its fields with their values
NoBody == <<>>
OpenAIBody(model, args) ==
    LET isO1Model == IsO1Model(model)
        maxTokens == IF args.maxTokens # 0 THEN args.maxTokens ELSE DefaultMaxTokens
        temperature == IF args.temperature # "undefined" THEN args.temperature
                       ELSE DefaultTemperature
    IN ("model" :> model)
       @@ (IF args.method = "streamComplete" THEN "stream" :> TRUE ELSE NoBody)
       @@ (IF isO1Model THEN "max_completion_tokens" :> maxTokens
           ELSE ("max_tokens" :> maxTokens) @@ ("temperature" :> temperature))
       @@ (IF args.tools.defined /\ Len(args.tools.list) > 0 /\ ~isO1Model
           THEN ("tools" :> args.tools.list) @@ ("tool_choice" :> "auto")
           ELSE NoBody)

\* the head of complete and streamComplete: formatMessages(request.messages)
\* and the body the request is posted with
Encode ==
    /\ erequest = <<>>
    /\ eturns # <<>>
    /\ erequest' = FormatMessages(evendor, eturns)
    /\ esystem' = SystemField(evendor, eturns)
    /\ ebody' = IF evendor = "openai" THEN OpenAIBody(emodel, eargs) ELSE NoBody
    /\ UNCHANGED <<nonEncVars, evendor, eturns, emodel, eargs>>

\* ------------------------------------------------------- the sessions
\* Two inbound messages, each served by the Agent that createAgent builds for
\* it, on one project.  Objects live on a heap and are held by reference, so
\* that two agents holding one object is a state the model can be in.
MaxSessions == 2
MaxSessOps == 3
Sessions == 1..MaxSessions

\* the references of an agent: ToolExecutor.envVars,
\* ToolExecutor.backgroundProcesses, Agent.conversationHistory
Refs(envVars_, backgroundProcesses_, conversationHistory_) ==
    [envVars |-> envVars_, backgroundProcesses |-> backgroundProcesses_,
     conversationHistory |-> conversationHistory_]
NoAgent == Refs(0, 0, 0)

\* (mutant) the environment object is one module-level object
NewSharedFirst(objects, n) == IF n = 1 THEN 1 ELSE Len(objects) + n
\* the n-th object a constructor allocates: `{}`, `new Map()`, `[]` give a
\* new object on every evaluation
New(objects, n) == Len(objects) + n

\* storage.getEnvVarsByProject(projectId) copied into `envVars`
EnvVarRecords == MapSet(EmptyMap, "K", "v1")

\* createAgent: the envVars object filled from the records, the executor's
\* Map, the history with the system prompt and the loaded rows
CreateAgent(s) ==
    /\ agents[s] = NoAgent
    /\ LET refs == Refs(New(heap, 1), New(heap, 2), New(heap, 3)) IN
       /\ heap' = [k \in 1..(Len(heap) + 3) |->
                     IF k = refs.envVars THEN EnvVarRecords
                     ELSE IF k = refs.backgroundProcesses THEN EmptyMap
                     ELSE IF k = refs.conversationHistory THEN LoadedHistory(<<>>)
                     ELSE IF k \in DOMAIN heap THEN heap[k] ELSE EmptyMap]
       /\ agents' = [agents EXCEPT ![s] = refs]
    /\ actor' = s
    /\ UNCHANGED <<nonSessVars, sops>>

\* an operation of session s that assigns to the object its agent holds
Assign(s, ref, object) ==
    /\ agents[s] # NoAgent
    /\ sops < MaxSessOps
    /\ sops' = sops + 1
    /\ heap' = [heap EXCEPT ![ref] = object]
    /\ actor' = s
    /\ UNCHANGED <<nonSessVars, agents>>

\* set_env_variable: this.envVars[key] = value
SessionSetEnv(s, key, value) ==
    Assign(s, agents[s].envVars, MapSet(heap[agents[s].envVars], key, value))

\* execute_shell in the background: this.backgroundProcesses.set(pid, ...)
SessionSpawn(s, pid, command) ==
    Assign(s, agents[s].backgroundProcesses,
           MapSet(heap[agents[s].backgroundProcesses], pid, command))

\* run(): this.conversationHistory.push(...)
SessionPush(s, msg) ==
    Assign(s, agents[s].conversationHistory,
           Append(heap[agents[s].conversationHistory], msg))

\* ------------------------------------------------------------ specification
AgentInit ==
    /\ joined = FALSE
    /\ nruns = 0
    /\ storage = <<>>
    /\ maxIterations \in CapConfigs
    /\ stub \in {"free", "loop"}
    /\ calls = 0
    /\ pc = [r \in RunIds |-> "idle"]
    /\ history = [r \in RunIds |-> <<>>]
    /\ iterations = [r \in RunIds |-> 0]
    /\ fullContent = [r \in RunIds |-> <<>>]
    /\ toolCalls = [r \in RunIds |-> <<>>]
    /\ toolResults = [r \in RunIds |-> <<>>]
    /\ log = [r \in RunIds |-> <<>>]
    /\ open = TRUE
    /\ closedAt = [r \in RunIds |-> 0]

\* no streamComplete call is looked at
DecoderOff ==
    /\ dvendor = "none"
    /\ dstream = <<>>
    /\ dpos = 0
    /\ dbuffer = <<>>
    /\ dcalls = <<>>
    /\ dcur = NoPart
    /\ dinput = <<>>
    /\ dout = <<>>
    /\ dpc = "done"
    /\ dmethod = "none"
    /\ dresponse = NoResponse
    /\ derror = NoError
    /\ dsplit = FALSE

\* no agent runs
AgentOff ==
    /\ joined = FALSE
    /\ nruns = 0
    /\ storage = <<>>
    /\ maxIterations = Unset
    /\ stub = "free"
    /\ calls = 0
    /\ pc = [r \in RunIds |-> "idle"]
    /\ history = [r \in RunIds |-> <<>>]
    /\ iterations = [r \in RunIds |-> 0]
    /\ fullContent = [r \in RunIds |-> <<>>]
    /\ toolCalls = [r \in RunIds |-> <<>>]
    /\ toolResults = [r \in RunIds |-> <<>>]
    /\ log = [r \in RunIds |-> <<>>]
    /\ open = TRUE
    /\ closedAt = [r \in RunIds |-> 0]

\* no tool executor is looked at
FsOff ==
    /\ fdirs = {}
    /\ ffiles = {}
    /\ flink = NoLink
    /\ fvia = FALSE
    /\ flast = Last("", FALSE, FALSE)
    /\ fresult = ""
    /\ fflag = FALSE
    /\ fraised = FALSE
    /\ fio = {}
    /\ foutside = FALSE
    /\ fops = 0

\* no formatMessages call is looked at
EncOff ==
    /\ evendor = "none"
    /\ eturns = <<>>
    /\ erequest = <<>>
    /\ esystem = Undefined
    /\ emodel = <<>>
    /\ eargs = NoArgs
    /\ ebody = NoBody

\* no executor serves the tools that do not work on paths
ToolsOff ==
    /\ backgroundProcesses = EmptyMap
    /\ alive = {}
    /\ nextPid = 1
    /\ spawned = {}
    /\ targeted = {}
    /\ envFile = <<>>
    /\ envVars = EmptyMap
    /\ envCalls = <<>>
    /\ tshell = NoShell
    /\ tlast = NoCall
    /\ tflag = FALSE
    /\ tops = 0

\* no session has an agent
SessionsOff ==
    /\ heap = <<>>
    /\ agents = [s \in Sessions |-> NoAgent]
    /\ actor = 0
    /\ sops = 0

Init == AgentInit /\ DecoderOff /\ FsOff /\ EncOff /\ ToolsOff /\ SessionsOff

Next ==
    \/ Join
    \/ \E found \in BOOLEAN : Receive(found)
    \/ \E r \in RunIds, outcome \in PersistOutcomes : PersistUser(r, outcome)
    \/ \E r \in RunIds, resp \in Responses \cup {LoopResponse} : Stream(r, resp)
    \/ \E r \in RunIds, outcome \in PersistOutcomes : PersistAssistant(r, outcome)
    \/ \E r \in RunIds : \E errs \in [1..Len(toolCalls[r]) -> BOOLEAN] : ExecTools(r, errs)
    \/ \E r \in RunIds, outcome \in PersistOutcomes : PersistTool(r, outcome)

Spec == Init /\ [][Next]_vars

\* one inbound message whose run keeps requesting tools, and a client that
\* may disconnect at any moment
InitWs == Init /\ stub = "loop"

NextWs == Next \/ Close

SpecWs == InitWs /\ [][NextWs]_vars

\* one streamComplete call against any vendor and any body
DecoderInit ==
    /\ dvendor \in {"openai", "anthropic", "google"}
    /\ \E events \in EventSeqs(EventsOfVendor(dvendor), MaxLines) :
         \E terminated \in BOOLEAN : dstream = Body(events, terminated)
    /\ dpos = 0
    /\ dbuffer = <<>>
    /\ dcalls = <<>>
    /\ dcur = NoPart
    /\ dinput = <<>>
    /\ dout = <<>>
    /\ dpc = "fetch"
    /\ dmethod = "none"
    /\ dresponse = NoResponse
    /\ derror = NoError
    /\ dsplit = FALSE

InitDec == AgentOff /\ DecoderInit /\ FsOff /\ EncOff /\ ToolsOff /\ SessionsOff

NextDec ==
    \/ \E response \in FetchResponses : Fetch(response)
    \/ \E response \in FetchResponses : Complete(response)
    \/ \E n \in 1..BodyLen : Read(n)
    \/ ReadDone
    \/ ReadFails

SpecDec == InitDec /\ [][NextDec]_vars

\* a project directory /a with a file, a subdirectory and the link /a/ab to
\* /ab, next to a project directory /ab with a file
FsInit ==
    /\ fdirs = {<<"a">>, <<"a", "a">>, <<"ab">>}
    /\ ffiles = {<<"a", "x">>, <<"ab", "x">>}
    /\ flink = <<"a", "ab">>
    /\ fvia = FALSE
    /\ flast = Last("", FALSE, FALSE)
    /\ fresult = ""
    /\ fflag = FALSE
    /\ fraised = FALSE
    /\ fio = {}
    /\ foutside = FALSE
    /\ fops = 0

InitFs == AgentOff /\ DecoderOff /\ FsInit /\ EncOff /\ ToolsOff /\ SessionsOff

NextFs ==
    \/ \E arg \in PathArgs : ReadFile(arg)
    \/ \E arg \in PathArgs : WriteFile(arg)
    \/ \E arg \in PathArgs, recursive \in BOOLEAN : ListDirectory(arg, recursive)
    \/ \E arg \in PathArgs : CreateDirectory(arg)
    \/ \E arg \in PathArgs, recursive \in BOOLEAN : DeleteFile(arg, recursive)
    \/ \E source \in PathArgs, destination \in PathArgs : MoveFile(source, destination)
    \/ \E toolName \in ToolNames, bag \in BOOLEAN, raises \in BOOLEAN :
          Execute(toolName, bag, raises)

SpecFs == InitFs /\ [][NextFs]_vars

\* the system contents, the models and the requests the adapters are given
SystemContents == {<<"p">>, <<" ", "q", "\n">>}
SystemSeqs == {<<>>} \cup {<<a>> : a \in SystemContents}
                    \cup {<<a, b>> : a \in SystemContents, b \in SystemContents}
Models == {<<"o", "1">>, <<"o", "1", "-mini">>, <<"o", "3">>, <<"gpt-4o">>}
ArgsSet ==
    {Args(m, t, n, temp) : m \in {"complete", "streamComplete"},
                           t \in {NoCatalog, Catalog(<<>>), Catalog(<<"read_file">>)},
                           n \in {0, 100}, temp \in {"undefined", "0"}}

\* one complete or streamComplete call of any adapter on any history of
\* system turns and a replayed tool exchange
EncInit ==
    /\ evendor \in {"openai", "anthropic", "google"}
    /\ \E scheme \in {"vendor", "name"} :
         \E c \in InvocationSeqs(MaxTcs) \ {<<>>} :
           \E sys \in SystemSeqs : eturns = SystemTurns(sys) \o Turns(scheme, c)
    /\ IF evendor = "openai"
       THEN emodel \in Models /\ eargs \in ArgsSet
       ELSE emodel = <<"m">> /\ eargs = Args("complete", Catalog(<<"read_file">>), 0, "undefined")
    /\ erequest = <<>>
    /\ esystem = Undefined
    /\ ebody = NoBody

InitEnc == AgentOff /\ DecoderOff /\ FsOff /\ EncInit /\ ToolsOff /\ SessionsOff

NextEnc == Encode

SpecEnc == InitEnc /\ [][NextEnc]_vars

InitSessions == AgentOff /\ DecoderOff /\ FsOff /\ EncOff /\ ToolsOff /\ SessionsOff

NextSessions ==
    \/ \E s \in Sessions : CreateAgent(s)
    \/ \E s \in Sessions, key \in {"K", "L"}, value \in {"v1", "v2"} :
          SessionSetEnv(s, key, value)
    \/ \E s \in Sessions, pid \in 1..MaxPids : SessionSpawn(s, pid, "c1")
    \/ \E s \in Sessions : SessionPush(s, Msg("user", UserMessage(s), <<>>, <<>>))

SpecSessions == InitSessions /\ [][NextSessions]_vars

\* a new executor on a host where a process it did not spawn runs
ToolsInit ==
    /\ backgroundProcesses = EmptyMap
    /\ alive = {Foreign}
    /\ nextPid = 1
    /\ spawned = {}
    /\ targeted = {}
    /\ envFile = <<>>
    /\ envVars = EmptyMap
    /\ envCalls = <<>>
    /\ tshell = NoShell
    /\ tlast = NoCall
    /\ tflag = FALSE
    /\ tops = 0

InitTools == AgentOff /\ DecoderOff /\ FsOff /\ EncOff /\ ToolsInit /\ SessionsOff

NextTools ==
    \/ \E command \in Commands : ShellBackground(command)
    \/ ListProcesses
    \/ \E pid \in PidArgs : Kill(pid)
    \/ \E pid \in PidArgs : Restart(pid)
    \/ \E pid \in PidArgs : Exit(pid)
    \/ \E key \in Keys, value \in Values, persist \in BOOLEAN :
          SetEnvVariable(key, value, persist)
    \/ \E timeout \in TimeoutArgs, ending \in Endings : ShellForeground(timeout, ending)

SpecTools == InitTools /\ [][NextTools]_vars

\* ------------------------------------------------- reading the log of a run
Idx(r) == 1..Len(log[r])
IsEvent(e, type) == e.k = "event" /\ e.t = type
IsTerminal(e) == IsEvent(e, "done") \/ IsEvent(e, "error")
Finished(r) == pc[r] \in {"done", "rejected"}
RunStarted(r) == history[r] # <<>>
CapError == Ev("error", "Maximum iterations reached", 0)
ProviderCalls(r) == Cardinality({p \in Idx(r) : log[r][p].k = "call"})
\* the last entry of kind k before position p, 0 when there is none
LastBefore(r, k, p) ==
    LET S == {q \in 1..(p - 1) : log[r][q].k = k} IN
    IF S = {} THEN 0 ELSE CHOOSE q \in S : \A q2 \in S : q2 <= q
\* the entries strictly between positions a and b
Between(r, a, b) == SubSeq(log[r], a + 1, b - 1)
EventsOf(entries, type) == SelectSeq(entries, LAMBDA e : IsEvent(e, type))
EntriesOf(entries, k) == SelectSeq(entries, LAMBDA e : e.k = k)
Xs(entries) == [n \in 1..Len(entries) |-> entries[n].x]
Is(entries) == [n \in 1..Len(entries) |-> entries[n].i]
IdsOf(tcs) == [n \in 1..Len(tcs) |-> tcs[n].id]
ResultIdsOf(trs) == [n \in 1..Len(trs) |-> trs[n].toolCallId]

\* -------------------------------------------------------------- properties
\* C1: whenever a further assistant turn is in the chat's persisted history,
\* every earlier persisted assistant turn that carries tool invocations is
\* immediately followed by a tool turn that holds exactly one outcome for each
\* invocation, with the same identifier, and no other outcome.
Answered(i) ==
    /\ i + 1 <= Len(storage)
    /\ storage[i + 1].role = "tool"
    /\ LET tcs == storage[i].toolCalls
           trs == storage[i + 1].toolResults
       IN /\ \A n \in 1..Len(tcs) :
                Cardinality({m \in 1..Len(trs) : trs[m].toolCallId = tcs[n].id}) = 1
          /\ \A m \in 1..Len(trs) : \E n \in 1..Len(tcs) : tcs[n].id = trs[m].toolCallId
C1_NoOrphanInvocation ==
    \A i, j \in 1..Len(storage) :
        (/\ i < j
         /\ storage[i].role = "assistant"
         /\ storage[i].toolCalls # <<>>
         /\ storage[j].role = "assistant") => Answered(i)

\* C2: a run never makes more provider calls than the effective cap N (the
\* configured maxIterations, 10 when none is configured) and makes none after
\* the cap error; a finished run in which every provider call returned at
\* least one tool invocation and every turn was persisted has made exactly N
\* provider calls and ended with the error 'Maximum iterations reached'.
AlwaysTools(r) ==
    \A p \in Idx(r) : log[r][p].k = "response" => log[r][p].t = "ok" /\ log[r][p].i >= 1
AllPersisted(r) ==
    \A p \in Idx(r) : log[r][p].k = "persist" => log[r][p].x = "ok"
C2_ExactlyCapCalls ==
    LET N == IF maxIterations = Unset THEN 10 ELSE maxIterations IN
    \A r \in RunIds :
        /\ ProviderCalls(r) <= N
        /\ \A p, q \in Idx(r) : p < q /\ log[r][p] = CapError => log[r][q].k # "call"
        /\ (RunStarted(r) /\ Finished(r) /\ AlwaysTools(r) /\ AllPersisted(r))
              => /\ ProviderCalls(r) = N
                 /\ log[r][Len(log[r])] = CapError
C2_Witness ==
    \E r \in RunIds :
        /\ RunStarted(r) /\ Finished(r) /\ AlwaysTools(r) /\ AllPersisted(r)
        /\ maxIterations = Unset
        /\ ProviderCalls(r) = 10

\* C3: while the run of an inbound user message has not emitted its terminal
\* event, no later inbound message of the connection has had a turn persisted
\* or a provider call made for it.
C3_OneCompletionAtATime ==
    \A r1, r2 \in RunIds :
        (/\ r1 < r2
         /\ \E p \in Idx(r2) : log[r2][p].k \in {"persist", "call"}) => Finished(r1)

\* C7: the events of a handler invocation end with exactly one terminal event
\* (done or error) and nothing follows it; an invocation has finished exactly
\* when its terminal event is out; and once a fatal condition has occurred (a
\* provider error chunk, an exception from the provider stream, a failure to
\* persist the user, assistant or tool turn, the iteration cap) the invocation
\* has finished and its last event is the error event.
TerminalAt(r) == {p \in Idx(r) : IsTerminal(log[r][p])}
CapReached(r) ==
    /\ ProviderCalls(r) = EffectiveCap
    /\ \E p \in Idx(r) :
          /\ log[r][p].k = "persist" /\ log[r][p].t = "tool" /\ log[r][p].x = "ok"
          /\ LastBefore(r, "call", Len(log[r]) + 1) < p
Fatal(r) ==
    \/ \E p \in Idx(r) : log[r][p].k = "persist" /\ log[r][p].x # "ok"
    \/ \E p \in Idx(r) : log[r][p].k = "response" /\ log[r][p].t # "ok"
    \/ CapReached(r)
C7_OneTerminalEvent ==
    \A r \in RunIds :
        /\ Cardinality(TerminalAt(r)) <= 1
        /\ \A p \in TerminalAt(r) : p = Len(log[r])
        /\ Finished(r) <=> TerminalAt(r) # {}
        /\ Fatal(r) => Finished(r) /\ IsEvent(log[r][Len(log[r])], "error")
C7_Witness ==
    \E r \in RunIds :
        /\ Finished(r)
        /\ \E p \in Idx(r) : log[r][p].k = "persist" /\ log[r][p].t = "user" /\ log[r][p].x # "ok"
        /\ IsEvent(log[r][Len(log[r])], "error")

\* C8: every provider call of a run is preceded by the completed persistence
\* of the run's user message, which is then a row of the chat and a turn of
\* the working history; a run whose user message failed to persist makes no
\* provider call.
C8_UserPersistedBeforeCall ==
    \A r \in RunIds :
        /\ \A p \in Idx(r) : log[r][p].k = "call" =>
              /\ \E q \in 1..(p - 1) :
                    /\ log[r][q] = PersistEntry("user", "ok", log[r][q].i)
                    /\ log[r][q].i \in 1..Len(storage)
                    /\ storage[log[r][q].i] = Row("user", UserMessage(r), <<>>, <<>>, r)
              /\ \E h \in 1..Len(history[r]) :
                    history[r][h] = Msg("user", UserMessage(r), <<>>, <<>>)
        /\ (\E q \in Idx(r) : log[r][q].k = "persist" /\ log[r][q].t = "user"
                                /\ log[r][q].x # "ok") => ProviderCalls(r) = 0
C8_Witness ==
    \E r \in RunIds : ProviderCalls(r) = 2 /\ storage[1].role = "user"

\* C9: every tool execution is preceded, within its iteration, by exactly one
\* persistence of the assistant turn, which succeeded and stored one row that
\* holds the concatenation of the iteration's content events and all of its
\* tool invocations in order; after a failed persistence of the assistant
\* turn no tool runs.
C9_AssistantPersistedBeforeTools ==
    \A r \in RunIds : \A p \in Idx(r) : log[r][p].k = "exec" =>
        LET c == LastBefore(r, "call", p)
            a == LastBefore(r, "persist", p)
        IN /\ c > 0 /\ a > c
           /\ log[r][a].t = "assistant" /\ log[r][a].x = "ok"
           /\ Len(EntriesOf(Between(r, c, p), "persist")) = 1
           /\ log[r][a].i \in 1..Len(storage)
           /\ LET row == storage[log[r][a].i] IN
              /\ row.role = "assistant" /\ row.run = r
              /\ row.content = Xs(EventsOf(Between(r, c, a), "content"))
              /\ IdsOf(row.toolCalls) = Xs(EventsOf(Between(r, c, a), "tool_call"))
C9_Witness ==
    \E r \in RunIds : \E p \in Idx(r) :
        /\ log[r][p].k = "exec" /\ log[r][p].i = 2
        /\ \E q \in 1..(p - 1) : IsEvent(log[r][q], "content")

\* C10: in every iteration whose tool turn was handed to storage, the tools
\* were executed exactly once each, one at a time and in the order of the
\* tool-call events; the tool-result events and the outcomes of the stored
\* tool turn are in that order; and every provider call after the first comes
\* after the successful persistence of the tool turn of the iteration before.
C10_ToolsInOrder ==
    \A r \in RunIds : \A p \in Idx(r) :
        /\ (log[r][p].k = "persist" /\ log[r][p].t = "tool") =>
              LET c == LastBefore(r, "call", p)
                  seg == Between(r, c, p)
                  asked == EventsOf(seg, "tool_call")
                  ran == EntriesOf(seg, "exec")
                  told == EventsOf(seg, "tool_result")
              IN /\ Xs(ran) = Xs(asked) /\ Is(ran) = Is(asked)
                 /\ Is(asked) = [n \in 1..Len(asked) |-> n]
                 /\ Is(told) = Is(asked)
                 /\ \A q \in (c + 1)..(p - 1) :
                       log[r][q].k = "exec" => /\ IsEvent(log[r][q + 1], "tool_result")
                                               /\ log[r][q + 1].i = log[r][q].i
                 /\ log[r][p].i # 0 =>
                       /\ log[r][p].i \in 1..Len(storage)
                       /\ storage[log[r][p].i].role = "tool"
                       /\ ResultIdsOf(storage[log[r][p].i].toolResults) = Xs(asked)
        /\ (log[r][p].k = "call" /\ log[r][p].i > 1) =>
              LET t == LastBefore(r, "persist", p) IN
              /\ t > 0 /\ log[r][t].t = "tool" /\ log[r][t].x = "ok"
              /\ LastBefore(r, "exec", p) < t
              /\ LastBefore(r, "call", p) < t
C10_Witness ==
    \E r \in RunIds : \E p, q \in Idx(r) :
        /\ p < q
        /\ log[r][p].k = "exec" /\ log[r][p].i = 2
        /\ log[r][q].k = "call" /\ log[r][q].i = 2

\* ------------------------------------------------------------ C4 and C5
\* What the vendor sent, read off the body and not off the decoder: the
\* payloads of the lines that came with their newline, up to the vendor's
\* terminating sentinel or stop event.
SentLines == [k \in 1..(Len(dstream) \div 4) |-> dstream[4 * k - 2].e]
StopEvent ==
    CASE dvendor = "openai" -> "[DONE]"
      [] dvendor = "anthropic" -> "message_stop"
      [] OTHER -> "none"
StopAt ==
    IF \E k \in 1..Len(SentLines) : SentLines[k] = StopEvent
    THEN CHOOSE k \in 1..Len(SentLines) :
            /\ SentLines[k] = StopEvent
            /\ \A j \in 1..(k - 1) : SentLines[j] # StopEvent
    ELSE Len(SentLines) + 1
Received == SubSeq(SentLines, 1, StopAt - 1)
EndsWithStop == StopAt <= Len(SentLines)

\* the fragments of argument text among some received payloads, in order
IsFragment(e) == e \in {"argsL", "argsR", "jsonL", "jsonR"}
FragmentOf(e) == IF e \in {"argsL", "jsonL"} THEN "L" ELSE "R"
Fragments(events) ==
    LET fs == SelectSeq(events, IsFragment) IN [i \in 1..Len(fs) |-> FragmentOf(fs[i])]

\* Anthropic: the tool_use block opened at line j is closed at line k
Block(j, k) ==
    /\ j < k
    /\ Received[j] = "tool_use"
    /\ Received[k] = "content_block_stop"
    /\ \A m \in (j + 1)..(k - 1) : Received[m] \notin {"tool_use", "content_block_stop"}
Blocks == {b \in (1..Len(Received)) \X (1..Len(Received)) : Block(b[1], b[2])}

Count(e) == Cardinality({k \in 1..Len(Received) : Received[k] = e})

\* how many invocations with this identifier and a name were received whole
ToolIds == {"id1", "id2", "read_file"}
ReceivedWhole(id) ==
    CASE dvendor = "openai" ->
           IF id = "id1" THEN (IF Count("start0") > 0 THEN 1 ELSE 0)
           ELSE IF id = "id2" THEN (IF Count("start1") + Count("args1") > 0 THEN 1 ELSE 0)
           ELSE 0
      [] dvendor = "anthropic" -> IF id = "id1" THEN Cardinality(Blocks) ELSE 0
      [] OTHER -> IF id = "read_file" THEN Count("call") + 2 * Count("two_calls") ELSE 0
Emitted(id) ==
    Cardinality({i \in 1..Len(dout) : dout[i].type = "tool_call" /\ dout[i].id = id})

\* the call got a success response and the generator returned
Decoded == dpc = "done" /\ dout # <<YError>>

\* C4: when a decoder has returned, every tool invocation whose identifier and
\* name were received has been emitted as exactly one tool-call event, and the
\* one done event comes after all of them, whether the stream ended with the
\* vendor's sentinel or stop event or with the end of input.
C4_EveryInvocationEmittedOnce ==
    Decoded =>
        /\ \A id \in ToolIds : Emitted(id) = ReceivedWhole(id)
        /\ Len(dout) > 0
        /\ \A i \in 1..Len(dout) : dout[i].type = "done" <=> i = Len(dout)

\* the received invocations whose buffered argument text is not valid JSON
InvalidInvocations ==
    CASE dvendor = "openai" ->
           IF /\ Count("start0") > 0
              /\ Fragments(Received) # <<>>
              /\ ~ValidJSON(Fragments(Received))
           THEN {"id1"} ELSE {}
      [] dvendor = "anthropic" ->
           IF \E b \in Blocks : ~ValidJSON(Fragments(SubSeq(Received, b[1] + 1, b[2] - 1)))
           THEN {"id1"} ELSE {}
      [] OTHER -> {}

\* C5: argument text that is not valid JSON never makes a decoder throw, and
\* when the decoder has returned, the invocation has been emitted with an
\* empty argument object.
C5_InvalidArgumentsGiveEmptyObject ==
    /\ dpc # "threw"
    /\ Decoded =>
         \A id \in InvalidInvocations :
            \E i \in 1..Len(dout) :
               dout[i].type = "tool_call" /\ dout[i].id = id /\ dout[i].args = "empty"

\* ------------------------------------------------------------------- C6
\* C6: when a path argument of a filesystem tool resolves to a location that
\* is neither the project directory nor beneath it, the tool returns the
\* path-traversal error and hands no path to a filesystem function.
C6_OutsidePathsRejected ==
    foutside => fresult = "Error: Path traversal not allowed" /\ fio = {}

\* ------------------------------------------------------------------ C11
\* C11: the rows of the chat are in causal order: the rows of one run are
\* next to each other (no row of another run lies between them), a run's
\* first row is its user turn, an assistant turn follows the user turn or a
\* tool turn of its run, and a tool turn follows an assistant turn of its run.
C11_CausalOrder ==
    /\ \A i, j, k \in 1..Len(storage) :
          (i < j /\ j < k /\ storage[i].run = storage[k].run)
              => storage[j].run = storage[i].run
    /\ \A i \in 1..Len(storage) :
          LET row == storage[i] IN
          /\ row.role = "user" => (i = 1 \/ storage[i - 1].run # row.run)
          /\ row.role = "assistant" =>
                /\ i > 1
                /\ storage[i - 1].run = row.run
                /\ storage[i - 1].role \in {"user", "tool"}
          /\ row.role = "tool" =>
                /\ i > 1
                /\ storage[i - 1].run = row.run
                /\ storage[i - 1].role = "assistant"

\* ------------------------------------------------------------------ C12
\* C12: once the socket of the connection has closed, the handler hands no
\* further agent event of any run to it.
C12_NoSendAfterClose ==
    ~open => \A r \in RunIds : \A p \in Idx(r) : p > closedAt[r] => log[r][p].k # "event"

\* ------------------------------------------------------------------ C13
\* C13: when a provider call of a run ended in a transport error (an error
\* chunk or an exception from the stream), the run has finished, exactly one
\* terminal event follows the failed response and it is the error event that
\* ends the log, and after the failed response the run makes no provider
\* call, executes no tool and persists no turn.
FailedResponse(r, p) == log[r][p].k = "response" /\ log[r][p].t # "ok"
C13_TransportErrorEndsRun ==
    \A r \in RunIds : \A p \in Idx(r) : FailedResponse(r, p) =>
        /\ Finished(r)
        /\ IsEvent(log[r][Len(log[r])], "error")
        /\ Cardinality({q \in Idx(r) : q > p /\ IsTerminal(log[r][q])}) = 1
        /\ \A q \in Idx(r) : q > p => log[r][q].k \notin {"call", "exec", "persist"}
        /\ Cardinality({i \in 1..Len(storage) :
                           storage[i].run = r /\ storage[i].role = "assistant"})
              < ProviderCalls(r)
C13_Witness ==
    \E r \in RunIds : \E p, q \in Idx(r) :
        /\ q < p
        /\ log[r][q].k = "exec"
        /\ log[r][p].k = "response" /\ log[r][p].t = "throws"
        /\ \E e \in Idx(r) : e > p /\ IsEvent(log[r][e], "content")

\* ------------------------------------------------------------------ C14
\* C14: a tool execution whose outcome is an error does not end the run: its
\* tool-result event is followed only by the remaining executions of the
\* iteration and then by the persistence of the tool turn; the stored tool
\* turn and the tool turn of the working history hold the outcome with its
\* error flag; and when the tool turn was persisted the next provider call
\* is issued, unless the iteration cap is reached.
FailedToolAt(r, q) == IsEvent(log[r][q], "tool_result") /\ log[r][q].x = "Error"
ToolPersistAfter(r, q) ==
    LET S == {p \in Idx(r) : p > q /\ log[r][p].k = "persist"} IN
    IF S = {} THEN 0 ELSE CHOOSE p \in S : \A p2 \in S : p <= p2
Flagged(trs, n) == n \in 1..Len(trs) /\ trs[n].isError /\ trs[n].result = "Error"
C14_ToolErrorFedBack ==
    \A r \in RunIds : \A q \in Idx(r) : FailedToolAt(r, q) =>
        LET p == ToolPersistAfter(r, q)
            n == log[r][q].i
        IN IF p = 0
           THEN /\ pc[r] = "persist_tool"
                /\ \A e \in Idx(r) : e > q => ~IsTerminal(log[r][e])
                /\ Flagged(toolResults[r], n)
           ELSE /\ log[r][p].t = "tool"
                /\ \A e \in (q + 1)..(p - 1) :
                      log[r][e].k = "exec" \/ IsEvent(log[r][e], "tool_result")
                /\ log[r][p].i # 0 =>
                      /\ log[r][p].i \in 1..Len(storage)
                      /\ storage[log[r][p].i].role = "tool"
                      /\ Flagged(storage[log[r][p].i].toolResults, n)
                /\ \E h \in 1..Len(history[r]) :
                      history[r][h].role = "tool" /\ Flagged(history[r][h].toolResults, n)
                /\ log[r][p].x = "ok" =>
                      /\ p < Len(log[r])
                      /\ IF Cardinality({c \in 1..p : log[r][c].k = "call"}) < EffectiveCap
                         THEN /\ IsEvent(log[r][p + 1], "thinking")
                              /\ p + 2 <= Len(log[r]) /\ log[r][p + 2].k = "call"
                         ELSE log[r][p + 1] = CapError
C14_Witness ==
    \E r \in RunIds : \E q, c \in Idx(r) :
        /\ q < c
        /\ FailedToolAt(r, q)
        /\ log[r][c].k = "call"

\* ------------------------------------------------------------------ C15
\* C15: every call of execute() ends with a result and never with an
\* exception, for every tool name (one outside the catalog included) and
\* every argument bag (an undefined one included); the result carries the
\* error flag exactly when an exception was raised inside the call, which a
\* name outside the catalog always does.
C15_ExecuteNeverThrows ==
    fops > 0 =>
        /\ fresult # ""
        /\ fflag <=> fraised
        /\ fflag <=> fresult # "ok"
C15_Witness == fops > 0 /\ fraised /\ fio = {} /\ fresult = "Error"

\* ------------------------------------------------------------------ C16
\* C16: the tool invocations a decoder emits for one response have pairwise
\* distinct identifiers, also when the same tool is requested twice (the
\* responses in which the vendor itself sent one identifier twice are left
\* aside).
VendorIdsDistinct == dvendor = "anthropic" => Count("tool_use") <= 1
C16_DistinctIdentifiers ==
    (Decoded /\ VendorIdsDistinct) =>
        \A i, j \in 1..Len(dout) :
            (i < j /\ dout[i].type = "tool_call" /\ dout[j].type = "tool_call")
                => dout[i].id # dout[j].id

\* ------------------------------------------------------------------ C17
\* The tool calls and the tool results of an encoded request, in order, and
\* what the vendor protocol uses to tell which invocation a result answers:
\* the identifier for OpenAI and Anthropic, the function name for Google.
RECURSIVE PartsOf(_, _)
PartsOf(request, kinds) ==
    IF request = <<>> THEN <<>>
    ELSE SelectSeq(Head(request).parts, LAMBDA q : q.kind \in kinds)
         \o PartsOf(Tail(request), kinds)
EncodedCalls == PartsOf(erequest, {"function", "tool_use", "functionCall"})
EncodedResults == PartsOf(erequest, {"tool_call_id", "tool_result", "functionResponse"})
RECURSIVE ResultTexts(_)
ResultTexts(request) ==
    IF request = <<>> THEN <<>>
    ELSE LET m == Head(request) IN
         (IF m.role = "tool" THEN <<m.text>>
          ELSE [k \in 1..Len(SelectSeq(m.parts, LAMBDA q : q.kind \in {"tool_result", "functionResponse"}))
                  |-> SelectSeq(m.parts, LAMBDA q : q.kind \in {"tool_result", "functionResponse"})[k].text])
         \o ResultTexts(Tail(request))
CallRef(q) == IF evendor = "google" THEN q.name ELSE q.ref
ResultRef(q) == IF evendor = "google" THEN q.name ELSE q.ref
ArgumentsOf(q) == IF evendor = "openai" THEN Unstringify(q.args) ELSE q.args

\* the replayed exchange: the turns of the history that are not system turns
Exchange == SelectSeq(eturns, LAMBDA m : m.role # "system")

\* C17: in the request an adapter encodes from an assistant turn with tool
\* invocations and its tool turn, every invocation appears with its name and
\* arguments, every outcome appears with its result text, and the reference
\* of the k-th outcome designates the k-th invocation and no other.
C17_ReplayRoundTrip ==
    erequest # <<>> =>
        LET tcs == Exchange[1].toolCalls
            trs == Exchange[2].toolResults
        IN /\ Len(EncodedCalls) = Len(tcs)
           /\ \A k \in 1..Len(tcs) :
                 /\ EncodedCalls[k].name = tcs[k].name
                 /\ ArgumentsOf(EncodedCalls[k]) = tcs[k].arguments
           /\ Len(EncodedResults) = Len(trs)
           /\ ResultTexts(erequest) = [k \in 1..Len(trs) |-> trs[k].result]
           /\ \A k \in 1..Len(trs) :
                 {j \in 1..Len(EncodedCalls) :
                     CallRef(EncodedCalls[j]) = ResultRef(EncodedResults[k])} = {k}

\* ------------------------------------------------------------------ C18
\* The entries of the iteration that the provider call at position c opened.
NextCallAfter(r, c) ==
    LET S == {q \in Idx(r) : q > c /\ log[r][q].k = "call"} IN
    IF S = {} THEN Len(log[r]) + 1 ELSE CHOOSE q \in S : \A q2 \in S : q <= q2
IterationOf(r, c) == Between(r, c, NextCallAfter(r, c))
Streamed(entries) ==
    SelectSeq(entries, LAMBDA e : e.k = "chunk" /\ e.t \in {"content", "tool_call"})
Relayed(entries) ==
    SelectSeq(entries, LAMBDA e : IsEvent(e, "content") \/ IsEvent(e, "tool_call"))
Ts(entries) == [n \in 1..Len(entries) |-> entries[n].t]

\* C18: every provider call is opened by one thinking event, and the run has
\* as many thinking events as provider calls; within the iteration the
\* content and tool-call events are the content and tool-call chunks of the
\* provider stream in the order the stream produced them; the tool-result
\* events come after all of them, one directly after each tool execution.
C18_EventOrder ==
    \A r \in RunIds :
        /\ Cardinality({p \in Idx(r) : IsEvent(log[r][p], "thinking")}) = ProviderCalls(r)
        /\ \A c \in Idx(r) : log[r][c].k = "call" =>
              LET seg == IterationOf(r, c) IN
              /\ c > 1 /\ IsEvent(log[r][c - 1], "thinking")
              /\ Ts(Relayed(seg)) = Ts(Streamed(seg))
              /\ Xs(Relayed(seg)) = Xs(Streamed(seg))
              /\ \A a, b \in 1..Len(seg) :
                    (/\ IsEvent(seg[a], "tool_result")
                     /\ IsEvent(seg[b], "content") \/ IsEvent(seg[b], "tool_call")) => b < a
              /\ Len(EventsOf(seg, "tool_result")) = Len(EntriesOf(seg, "exec"))
              /\ \A a \in 1..Len(seg) :
                    seg[a].k = "exec" => a < Len(seg) /\ IsEvent(seg[a + 1], "tool_result")
              /\ Len(EntriesOf(seg, "exec")) \in {0, Len(EventsOf(seg, "tool_call"))}
C18_Witness ==
    \E r \in RunIds : \E c \in Idx(r) :
        /\ log[r][c].k = "call"
        /\ Ts(Relayed(IterationOf(r, c))) = <<"content", "tool_call">>
        /\ Len(EventsOf(IterationOf(r, c), "tool_result")) = 1
        /\ ProviderCalls(r) = 2

\* ------------------------------------------------------------------ C19
\* The scenario: the provider answered the first call with one tool call and
\* nothing else, the tool ran without error, the provider answered the second
\* call with text only, every turn was stored and the run has ended.
RowsOf(r) == SelectSeq(storage, LAMBDA row : row.run = r)
Roles(rows) == [n \in 1..Len(rows) |-> rows[n].role]
Scenario(r) ==
    /\ RunStarted(r) /\ Finished(r) /\ AllPersisted(r)
    /\ Ts(EntriesOf(log[r], "response")) = <<"ok", "ok">>
    /\ Ts(EntriesOf(log[r], "chunk")) = <<"tool_call", "done", "content", "done">>
    /\ Ts(EntriesOf(log[r], "exec")) = <<"list_directory">>
    /\ Xs(EventsOf(log[r], "tool_result")) = <<"ok">>

\* C19 as stated: in the scenario the emitted events are exactly thinking,
\* tool-call, tool-result, content, done, and the run stored exactly the turns
\* user, assistant, tool, assistant in that order.
C19_ScenarioAsStated ==
    \A r \in RunIds : Scenario(r) =>
        /\ Ts(EntriesOf(log[r], "event"))
             = <<"thinking", "tool_call", "tool_result", "content", "done">>
        /\ Roles(RowsOf(r)) = <<"user", "assistant", "tool", "assistant">>

\* C19 (corrected): in the scenario the emitted events are exactly thinking,
\* tool-call, tool-result, thinking, content, done (a thinking event opens the
\* second provider call as well), and the run stored exactly the turns user,
\* assistant, tool, assistant in that order, the first assistant turn carrying
\* the invocation, the tool turn its outcome and the last the summary text.
C19_ScenarioEvents ==
    \A r \in RunIds : Scenario(r) =>
        /\ Ts(EntriesOf(log[r], "event"))
             = <<"thinking", "tool_call", "tool_result", "thinking", "content", "done">>
        /\ Roles(RowsOf(r)) = <<"user", "assistant", "tool", "assistant">>
        /\ Len(RowsOf(r)[2].toolCalls) = 1 /\ RowsOf(r)[2].content = <<>>
        /\ ResultIdsOf(RowsOf(r)[3].toolResults) = IdsOf(RowsOf(r)[2].toolCalls)
        /\ RowsOf(r)[4].content = Xs(EventsOf(log[r], "content"))
        /\ RowsOf(r)[4].toolCalls = <<>>
C19_Witness == \E r \in RunIds : Scenario(r)

\* ------------------------------------------------------------------ C20
\* the stored assistant turns of a run: the positions of their persist entries
StoredAssistant(r) ==
    {p \in Idx(r) : /\ log[r][p].k = "persist" /\ log[r][p].t = "assistant"
                     /\ log[r][p].x = "ok"}

\* C20: the content of every stored assistant turn, with or without tool
\* invocations, is the concatenation in emission order of the texts of the
\* content events emitted since the provider call of its iteration, and no
\* content event of the iteration is emitted after the turn is stored.
C20_ContentIsConcatenation ==
    \A r \in RunIds : \A p \in StoredAssistant(r) :
        LET c == LastBefore(r, "call", p) IN
        /\ c > 0
        /\ log[r][p].i \in 1..Len(storage)
        /\ storage[log[r][p].i].role = "assistant" /\ storage[log[r][p].i].run = r
        /\ storage[log[r][p].i].content = Xs(EventsOf(Between(r, c, p), "content"))
        /\ EventsOf(Between(r, p, NextCallAfter(r, c)), "content") = <<>>
C20_Witness ==
    \E r \in RunIds : \E p \in StoredAssistant(r) :
        /\ storage[log[r][p].i].content = <<"a", "b">>
        /\ storage[log[r][p].i].toolCalls = <<>>
        /\ ProviderCalls(r) = 2

\* ------------------------------------------------------------------ C21
\* the argument fragments the vendor addressed to an invocation, in arrival
\* order: OpenAI addresses them by index (index 0 is "id1", index 1 is "id2"),
\* Anthropic sends them inside the invocation's block
OwnFragments(id) ==
    IF id = "id1" THEN Fragments(Received)
    ELSE IF id = "id2" THEN [k \in 1..Count("args1") |-> "E"]
    ELSE <<>>
ToolCallsOf(out) == SelectSeq(out, LAMBDA y : y.type = "tool_call")
NthBlock(n) == CHOOSE b \in Blocks : Cardinality({c \in Blocks : c[1] < b[1]}) = n - 1
BlockFragments(b) == Fragments(SubSeq(Received, b[1] + 1, b[2] - 1))

\* C21: the arguments of every emitted invocation are the parse of the
\* fragments addressed to that invocation, concatenated in arrival order, and
\* of no other fragment: for OpenAI an invocation received with fragments that
\* concatenate to valid JSON is emitted with their parse when the stream ends
\* without the sentinel, and the decoder throws only when an invocation's own
\* fragments are not valid JSON; for Anthropic the n-th emitted invocation
\* carries the parse of the fragments of the n-th block, or the empty object.
C21_FragmentsConcatenated ==
    /\ dvendor = "openai" =>
          /\ dpc = "threw" =>
                \E id \in {"id1", "id2"} :
                   /\ ReceivedWhole(id) = 1
                   /\ OwnFragments(id) # <<>> /\ ~ValidJSON(OwnFragments(id))
          /\ \A i \in 1..Len(dout) : dout[i].type = "tool_call" =>
                dout[i].args = IF OwnFragments(dout[i].id) = <<>> THEN "undefined"
                               ELSE JSONParse(OwnFragments(dout[i].id))
          /\ (Decoded /\ ~EndsWithStop) =>
                \A id \in {"id1", "id2"} :
                   (ReceivedWhole(id) = 1 /\ ValidJSON(OwnFragments(id))) =>
                      \E i \in 1..Len(dout) :
                         /\ dout[i].type = "tool_call" /\ dout[i].id = id
                         /\ dout[i].args = JSONParse(OwnFragments(id))
    /\ (dvendor = "anthropic" /\ Decoded) =>
          /\ Len(ToolCallsOf(dout)) = Cardinality(Blocks)
          /\ \A n \in 1..Len(ToolCallsOf(dout)) :
                ToolCallsOf(dout)[n].args = AnthropicArguments(BlockFragments(NthBlock(n)))
C21_Witness ==
    /\ dvendor = "openai" /\ Decoded
    /\ Received = <<"start0", "argsL", "args1", "argsR">>
    /\ \E i, j \in 1..Len(dout) :
          /\ dout[i] = YToolCall("id1", "read_file", "path_x")
          /\ dout[j] = YToolCall("id2", "list_directory", "empty")

\* ------------------------------------------------------------------ C22
\* C22: when a path argument of a filesystem tool lies beneath the project
\* directory and passes through a symbolic link whose target is outside it,
\* the tool returns the path-traversal error and hands no path to a
\* filesystem function.
C22_LinkEscapeRejected ==
    fvia => fresult = "Error: Path traversal not allowed" /\ fio = {}

\* ------------------------------------------------------------------ C23
\* C23: the record of background processes holds exactly the pids that were
\* spawned in the background and have not since been the target of a kill or
\* a restart; after a restart the old pid is not in the record, and the newly
\* spawned pid is recorded with the command of the old one, also when the
\* old process had ended before.
C23_RecordHoldsLiveHandles ==
    /\ DOMAIN backgroundProcesses = spawned \ targeted
    /\ (tlast.action = "restart" /\ tlast.known) =>
          /\ tlast.pid \notin DOMAIN backgroundProcesses
          /\ (nextPid - 1) \in DOMAIN backgroundProcesses
          /\ backgroundProcesses[nextPid - 1] = tlast.before[tlast.pid]

\* ------------------------------------------------------------------ C24
\* C24: a kill or a restart with a pid that is not in the record returns an
\* error-flagged result and sends no signal; a kill or a restart without a
\* pid returns an error-flagged result, sends no signal and leaves the
\* record as it was.
C24_UnknownHandleRejected ==
    tlast.action \in {"kill", "restart"} =>
        /\ (tlast.pid # NoPid /\ ~tlast.known) => tflag /\ tlast.signalled = {}
        /\ tlast.pid = NoPid =>
              /\ tflag /\ tlast.signalled = {}
              /\ backgroundProcesses = tlast.before

\* ------------------------------------------------------------------ C25
\* the lines of the .env file for a key
LinesOf(key) == SelectSeq(envFile, LAMBDA line : line.key = key)

\* C25: when the last two persisting set_env_variable calls had the same key
\* and two different values, the .env file has exactly one line for that key
\* and that line is KEY=<second value>.
C25_LatestValueOnce ==
    LET n == Len(envCalls) IN
    (/\ n >= 2
     /\ envCalls[n].key = envCalls[n - 1].key
     /\ envCalls[n].value # envCalls[n - 1].value)
        => LinesOf(envCalls[n].key) = <<envCalls[n]>>

\* ------------------------------------------------------------------ C26
\* C26: a delete_file call without the recursive flag on a directory that has
\* entries returns an error-flagged result and changes nothing: the
\* directory and everything in it are in place after the call.
C26_NonRecursiveDeleteKeepsDirectory ==
    [][(/\ fops' = fops + 1
        /\ flast'.tool = "delete_file" /\ flast'.nonEmptyDir /\ ~flast'.recursive)
          => (/\ fflag' /\ fresult' # "ok"
              /\ fdirs' = fdirs /\ ffiles' = ffiles /\ flink' = flink)]_vars
C26_Witness ==
    /\ flast = Last("delete_file", FALSE, TRUE)
    /\ fresult = "Error" /\ fflag
    /\ fio = {projectDir}
    /\ <<"a", "x">> \in ffiles /\ <<"a", "a">> \in fdirs

\* ------------------------------------------------------------------ C27
\* C27: a foreground execute_shell returns the timeout error, with the given
\* timeout or 30000, exactly when the command was killed at the timeout; a
\* command that exited with a code other than 0 is never reported as timed
\* out: without output it gives an error that is not the timeout error, with
\* output it gives a result without the error flag that holds stdout
\* followed by stderr.
C27_TimeoutDistinctFromExit ==
    tlast.action = "shell" =>
        LET e == tshell.ending
            r == tshell.result
        IN /\ (r.kind = "timed out") <=> e.timedOut
           /\ e.timedOut =>
                 /\ tflag
                 /\ r.ms = IF tshell.timeout = NoTimeout THEN 30000 ELSE tshell.timeout
           /\ (~e.timedOut /\ e.code # 0 /\ ~e.stdout /\ ~e.stderr) =>
                 tflag /\ r.kind = "failed"
           /\ (~e.timedOut /\ e.code # 0 /\ (e.stdout \/ e.stderr)) =>
                 /\ ~tflag /\ r.kind = "output"
                 /\ r.parts = (IF e.stdout THEN <<"stdout">> ELSE <<>>)
                               \o (IF e.stderr THEN <<"stderr">> ELSE <<>>)
C27_Witness ==
    /\ tlast.action = "shell"
    /\ tshell.timeout = ShortTimeout /\ tshell.ending.timedOut /\ tshell.ending.stdout
    /\ tshell.result = ShellResult("timed out", 100, <<>>) /\ tflag

\* ------------------------------------------------------------------ C28
\* C28: in every state the working history of a started run begins with the
\* system turn built from the project name and directory, holds no other
\* system turn and no other turn with that text, and no stored row is a
\* system turn or carries that text.
C28_SystemTurnFirstAndOnly ==
    /\ \A r \in RunIds : RunStarted(r) =>
          /\ history[r][1] = Msg("system", createSystemPrompt, <<>>, <<>>)
          /\ \A i \in 2..Len(history[r]) :
                history[r][i].role # "system" /\ history[r][i].content # createSystemPrompt
    /\ \A i \in 1..Len(storage) :
          storage[i].role # "system" /\ storage[i].content # createSystemPrompt
C28_Witness ==
    /\ RunStarted(1) /\ RunStarted(2)
    /\ Len(history[1]) >= 4
    /\ Len(history[2]) >= 4
    /\ history[2][2].role = "user" /\ history[2][2].content = UserMessage(1)

\* ------------------------------------------------------------------ C29
\* The system contents of the history in order, joined with a separator.
SystemContentsOf(messages) ==
    LET sys == SelectSeq(messages, LAMBDA m : m.role = "system")
    IN [k \in 1..Len(sys) |-> sys[k].content]
RECURSIVE Joined(_, _)
Joined(texts, sep) ==
    IF texts = <<>> THEN <<>>
    ELSE IF Len(texts) = 1 THEN Head(texts)
    ELSE Head(texts) \o sep \o Joined(Tail(texts), sep)
Extracting == evendor \in {"anthropic", "google"}

\* C29: when the Anthropic or the Google adapter has encoded a history with
\* system turns, the top-level system field holds the contents of all the
\* system turns in history order (joined directly or by a newline), trimmed
\* of leading and trailing whitespace, and the encoded turn list holds no
\* system turn.
C29_SystemFieldHoldsAllSystemTurns ==
    (erequest # <<>> /\ Extracting /\ SystemContentsOf(eturns) # <<>>) =>
        /\ esystem.defined
        /\ \E sep \in {<<>>, <<"\n">>} :
              esystem.text = Trim(Joined(SystemContentsOf(eturns), sep))
        /\ \A k \in 1..Len(erequest) : erequest[k].role # "system"
        /\ Len(erequest) = Len(FormatMessages(evendor, Exchange))

\* ------------------------------------------------------------------ C30
BodyFields == DOMAIN ebody
NamedO1 == Len(emodel) >= 2 /\ emodel[1] = "o" /\ emodel[2] = "1"
CatalogNonEmpty == eargs.tools.defined /\ eargs.tools.list # <<>>

\* C30: the body of an OpenAI request, from complete and from
\* streamComplete alike: for a model whose name starts with "o1" it has
\* max_completion_tokens and none of temperature, max_tokens, tools,
\* tool_choice; for any other model it has max_tokens and temperature, and
\* it has tools and tool_choice "auto" exactly when the catalog is non-empty.
C30_O1RequestShape ==
    (erequest # <<>> /\ evendor = "openai") =>
        /\ eargs.method \in {"complete", "streamComplete"}
        /\ IF NamedO1
           THEN /\ "max_completion_tokens" \in BodyFields
                /\ BodyFields \cap {"temperature", "max_tokens", "tools", "tool_choice"} = {}
           ELSE /\ {"max_tokens", "temperature"} \subseteq BodyFields
                /\ "tools" \in BodyFields <=> CatalogNonEmpty
                /\ "tool_choice" \in BodyFields <=> CatalogNonEmpty
                /\ CatalogNonEmpty => ebody["tool_choice"] = "auto"
C30_Witness ==
    /\ erequest # <<>> /\ evendor = "openai"
    /\ emodel = <<"o", "1", "-mini">>
    /\ eargs.method = "streamComplete" /\ eargs.tools = Catalog(<<"read_file">>)
    /\ BodyFields = {"model", "stream", "max_completion_tokens"}

\* ------------------------------------------------------------------ C31
\* C31: when the vendor has answered a call with a status that is not a
\* success, streamComplete has yielded exactly one chunk, an error chunk
\* whose text carries the status code and the body text, and has returned;
\* complete has thrown an exception with the same text and has returned
\* nothing.
C31_NonSuccessIsOneError ==
    (dmethod # "none" /\ ~dresponse.ok) =>
        /\ derror.status = dresponse.status /\ derror.text = dresponse.text
        /\ derror.label = Label(dvendor)
        /\ IF dmethod = "streamComplete"
           THEN dpc = "done" /\ dout = <<YError>>
           ELSE dpc = "rejected" /\ dout = <<>>
C31_Witness ==
    /\ dmethod = "streamComplete" /\ dvendor = "google"
    /\ dresponse = FetchResponse(FALSE, 429, "quota", TRUE)
    /\ dout = <<YError>> /\ derror = ErrorText("Google", 429, "quota")
    /\ dstream # <<>>

\* ------------------------------------------------------------------ C32
\* The positions of the log at which a createMessage rejected.
FailedPersists(r) == {p \in Idx(r) : log[r][p].k = "persist" /\ log[r][p].x # "ok"}

\* C32: when the createMessage of a user, an assistant or a tool turn has
\* rejected, the run has ended, the one thing it did afterwards is the error
\* event sent to the client, and so no provider call, no tool execution and
\* no createMessage follows the failure.
C32_PersistFailureEndsRun ==
    \A r \in RunIds : \A p \in FailedPersists(r) :
       /\ pc[r] = "done"
       /\ Len(log[r]) = p + 1
       /\ IsEvent(log[r][p + 1], "error")
       /\ \A q \in Idx(r) : q > p => log[r][q].k \notin {"call", "exec", "persist"}
C32_Witness ==
    \E r \in RunIds :
       /\ \E p \in FailedPersists(r) : log[r][p].t = "tool" /\ log[r][p].x = "insert_failed"
       /\ \E p \in FailedPersists(r) : p > 1 /\ log[r][p - 1].k = "event"
       /\ pc[r] = "done"

\* ------------------------------------------------------------------ C33
\* What the agent of a session holds in memory: its environment overlay, its
\* Background Process Record and its working history.
Held(s) ==
    <<heap[agents[s].envVars], heap[agents[s].backgroundProcesses],
      heap[agents[s].conversationHistory]>>
Both == \A s \in Sessions : agents[s] # NoAgent

\* C33: a step of one session (a set-env-variable, a background spawn, a
\* push to the history, the creation of its agent) leaves what the agent of
\* every other session holds as it was.
C33_SessionsShareNothing ==
    [][\A s \in Sessions :
          (s # actor' /\ agents[s] # NoAgent) => Held(s)' = Held(s)]_vars
C33_Witness ==
    /\ Both /\ actor = 1 /\ sops = MaxSessOps
    /\ Held(1)[1]["K"] = "v2" /\ Held(2)[1]["K"] = "v1"
    /\ DOMAIN Held(1)[2] = {1} /\ DOMAIN Held(2)[2] = {}
    /\ Len(Held(1)[3]) = 2 /\ Len(Held(2)[3]) = 1

\* ------------------------------------------------------------------ C34
\* The turns run r loaded at session start: those before its user message.
UserAt(r) ==
    CHOOSE p \in 1..Len(history[r]) :
       history[r][p].role = "user" /\ history[r][p].content = UserMessage(r)
LoadedCount(r) == UserAt(r) - 2
RowsBefore(r) == Cardinality({p \in 1..Len(storage) : storage[p].run < r})
RowsAfter(r) == Cardinality({p \in 1..Len(storage) : storage[p].run > r})

\* run r is the only activity on the chat since its agent was created: every
\* other invocation has not started or has ended, the rows of the earlier
\* ones are those r loaded and the later ones inserted none
Solo(r) ==
    /\ RunStarted(r)
    /\ \A r2 \in RunIds \ {r} : pc[r2] = "idle" \/ Finished(r2)
    /\ RowsBefore(r) = LoadedCount(r)
    /\ RowsAfter(r) = 0
SentTurns(r) == history[r]

\* C34: when a run that is alone on its chat is about to call the provider,
\* the turns it sends are the system prompt followed by the rows of the chat
\* in table order, each with the role, content, tool invocations and tool
\* outcomes of its row.
PersistedTurns ==
    <<Msg("system", createSystemPrompt, <<>>, <<>>)>>
    \o [i \in 1..Len(storage) |->
          Msg(storage[i].role, storage[i].content, storage[i].toolCalls,
              storage[i].toolResults)]
C34_SentIsPersisted ==
    \A r \in RunIds :
       (pc[r] = "stream" /\ Solo(r)) => SentTurns(r) = PersistedTurns

\* C34 (amended): the turns sent are the system prompt followed by the rows
\* of the chat in table order, each with the role, tool invocations and tool
\* outcomes of its row, and with its content, except that a tool turn this
\* run persisted is sent with empty content while its row holds the joined
\* outcome texts.
OwnToolRow(r, i) == storage[i].role = "tool" /\ storage[i].run = r
C34_SentIsPersistedButToolContent ==
    \A r \in RunIds :
       (pc[r] = "stream" /\ Solo(r)) =>
          /\ Len(SentTurns(r)) = Len(storage) + 1
          /\ SentTurns(r)[1] = Msg("system", createSystemPrompt, <<>>, <<>>)
          /\ \A i \in 1..Len(storage) :
                LET sent == SentTurns(r)[i + 1] IN
                /\ sent.role = storage[i].role
                /\ sent.toolCalls = storage[i].toolCalls
                /\ sent.toolResults = storage[i].toolResults
                /\ IF OwnToolRow(r, i)
                   THEN /\ sent.content = <<>>
                        /\ storage[i].content = ToolTurnContent(storage[i].toolResults)
                   ELSE sent.content = storage[i].content
C34_Witness ==
    \E r \in RunIds :
       /\ pc[r] = "stream" /\ Solo(r) /\ iterations[r] = 2
       /\ \E i \in 1..LoadedCount(r) : storage[i].role = "tool" /\ storage[i].run # r
       /\ \E i \in 1..Len(storage) : OwnToolRow(r, i)

\* ------------------------------------------------------------------ C35
\* What a decoder yields when the whole body arrives in one read: the lines
\* that end with a newline are handled in order, then the stream is done.
InOneRead(v, stream) ==
    LET lines == Split(stream, <<>>, <<>>)
        st == OnLines(v, SubSeq(lines, 1, Len(lines) - 1),
                      DecState(<<>>, NoPart, <<>>, <<>>, "reading"))
    IN IF st.pc # "reading" THEN st
       ELSE IF v = "openai" THEN OpenAIEmit(st.calls, st)
       ELSE [st EXCEPT !.out = Append(st.out, YDone), !.pc = "done"]
StreamEnded ==
    /\ dmethod = "streamComplete" /\ dresponse.ok /\ dresponse.body
    /\ dpc \in {"done", "threw"}

\* C35: however the reads cut the body, a decoder that has come to its end
\* has yielded the events that the body yields when it arrives in one read,
\* in the same order, and has ended the same way.
C35_ChunkingIndependent ==
    StreamEnded =>
        \E whole \in {InOneRead(dvendor, dstream)} :
           dout = whole.out /\ dpc = whole.pc
C35_Witness ==
    /\ StreamEnded /\ dvendor = "openai" /\ dpc = "done"
    /\ Received = <<"start0", "argsL", "argsR">>
    /\ dpos = Len(dstream) /\ dstream[Len(dstream)] = NL /\ dsplit
    /\ \E i \in 1..Len(dout) : dout[i].type = "tool_call" /\ dout[i].args = "path_x"

\* ------------------------------------------------------------------ C36
\* The positions of the iteration-cap error in the log of a run, and the rows
\* of the table the run inserted.
CapErrors(r) == {p \in Idx(r) : log[r][p] = CapError}
OwnRows(r) == {i \in 1..Len(storage) : storage[i].run = r}

\* C36: when a run has emitted the iteration-cap error, the entry before it
\* is the successful persistence of a tool turn; between the last provider
\* call and that persistence every invocation of the response was executed
\* and answered by a tool-result event; the row of that tool turn holds the
\* outcomes of those invocations in order and is the last row the run
\* inserted; and the error is the last thing the run did, so no provider
\* call follows the tool turn.
C36_CapErrorAfterToolTurn ==
    \A r \in RunIds : \A p \in CapErrors(r) :
       LET c == LastBefore(r, "call", p)
           t == p - 1
           seg == Between(r, c, t)
           asked == EventsOf(seg, "tool_call")
       IN /\ c > 0 /\ t > c
          /\ log[r][t].k = "persist" /\ log[r][t].t = "tool" /\ log[r][t].x = "ok"
          /\ Len(asked) >= 1
          /\ Xs(EntriesOf(seg, "exec")) = Xs(asked)
          /\ Len(EventsOf(seg, "tool_result")) = Len(asked)
          /\ log[r][t].i \in OwnRows(r)
          /\ \A i \in OwnRows(r) : i <= log[r][t].i
          /\ storage[log[r][t].i].role = "tool"
          /\ ResultIdsOf(storage[log[r][t].i].toolResults) = Xs(asked)
          /\ p = Len(log[r]) /\ pc[r] = "done"
C36_Witness ==
    \E r \in RunIds :
       /\ CapErrors(r) # {} /\ maxIterations = 1
       /\ Len(storage[Len(storage)].toolResults) = 2
       /\ storage[Len(storage)].run = r

\* ------------------------------------------------------------------ C37
\* The encoded messages that carry tool invocations.
CallKinds == {"function", "tool_use", "functionCall"}
WithInvocations ==
    {k \in 1..Len(erequest) : \E j \in 1..Len(erequest[k].parts) :
                                 erequest[k].parts[j].kind \in CallKinds}
Keeping == evendor \in {"openai", "anthropic", "google"}

\* C37: in the request an adapter encodes from an assistant turn that has
\* text content and tool invocations, the message that carries the
\* invocations carries the text content of the turn as well.
C37_TextKeptWithInvocations ==
    (erequest # <<>> /\ Keeping /\ Exchange[1].content # "" /\ Exchange[1].toolCalls # <<>>) =>
        /\ WithInvocations # {}
        /\ \A k \in WithInvocations : erequest[k].text = Exchange[1].content

\* ------------------------------------------------------------------ C38
\* The lines of a .env file that belong to the keys other than `key`.
OtherLines(lines, key) == SelectSeq(lines, LAMBDA line : line.key # key)

\* C38: a persisting set_env_variable call for a key leaves the lines of
\* all other keys in the .env file as they were: the same keys with the same
\* values in the same order.
C38_OtherKeysUntouched ==
    [][(Len(envCalls') = Len(envCalls) + 1) =>
          LET key == envCalls'[Len(envCalls')].key
          IN OtherLines(envFile', key) = OtherLines(envFile, key)]_vars

\* ------------------------------------------------------------------ C39
\* The move_file calls whose result is error-flagged.
MoveFailed == fops' = fops + 1 /\ flast'.tool = "move_file" /\ fflag'

\* C39: a move_file call that returns an error-flagged result has changed
\* nothing: the directories, the files and the link are as before the call.
C39_FailedMoveChangesNothing ==
    [][MoveFailed => (fdirs' = fdirs /\ ffiles' = ffiles /\ flink' = flink)]_vars

\* ------------------------------------------------------------------ C40
\* What the handler did for an inbound message it refused.
Refused(r) ==
    /\ log[r] = <<Ev("error", "Not joined to a chat", 0)>>
    /\ history[r] = <<>>
    /\ OwnRows(r) = {}

\* C40: an inbound message on a connection that is not joined is refused:
\* the handler sends the one error event 'Not joined to a chat', constructs
\* no agent, inserts no row and calls no provider, then and ever after; and
\* when the connection has closed, its project and chat are cleared.
C40_MessageBeforeJoinRefused ==
    /\ [](\A r \in RunIds : pc[r] = "rejected" => Refused(r))
    /\ [](~open => ~joined)
    /\ [][(nruns' = nruns + 1 /\ ~joined) =>
             (/\ pc'[nruns'] = "rejected"
              /\ log'[nruns'] = <<Ev("error", "Not joined to a chat", 0)>>
              /\ history'[nruns'] = <<>>
              /\ storage' = storage /\ calls' = calls)]_vars
    /\ [][\A r \in RunIds : pc[r] = "rejected" => pc'[r] = "rejected"]_vars
C40_Witness ==
    /\ pc[1] = "rejected" /\ Refused(1)
    /\ ~open /\ ~joined

====
